---- MODULE Spec2Model ----
(***************************************************************************)
(* A model of the Flow Launcher power plan plugin: the encoding resolver   *)
(* (system_encoding.py), the default plan catalog (default_power_plans.py),*)
(* the plan manager and the plugin facade (main.py), the activation        *)
(* observers (power_plan_observers.py) and the power LED controller        *)
(* (lenovo_legion_led.py).                                                 *)
(*                                                                         *)
(* Text is a sequence of character codes.  A byte or an ASCII character is *)
(* its code (0..255), a decoded non-ASCII character is its Unicode code    *)
(* point, and the 36 characters of a UUID are one token: GuidBase + 2*k    *)
(* for the lower-case spelling of the k-th identifier, that number plus    *)
(* one for its upper-case spelling.                                        *)
(***************************************************************************)
EXTENDS Integers, Sequences, FiniteSets, TLC

VARIABLES
    encFile,      \* .cache/system_encoding.json
    plansFile,    \* .cache/default_plans.json
    vendorFile,   \* .cache/is_lenovo_system.json
    pc,           \* "down": no plugin process; "up": the objects are constructed;
                  \* "served": the request of this process is answered
    encoding,     \* SystemEncoding._encoding
    localized,    \* DefaultPowerPlans._localized_plans
    isLenovo,     \* LenovoLegionLEDObserver._is_lenovo_system
    op,           \* the operation that ran last
    arg,          \* its inputs (arguments and the answers of the outside world)
    raised,       \* whether it raised to its caller
    ret,          \* what it returned
    calls,        \* the external effects it had, in order
    observers,    \* the registry of activation observers, in registration order
    notified,     \* the observers it notified, in order, with the identifier
    peer,         \* a second plugin process: idle, or between the open(path, 'w')
                  \* and the end of the json.dump of one of its cache writes
    settingsFile, \* the settings file of the LenovoLegionLED controller
    legionLed     \* the LenovoLegionLED object: JNull before it is constructed,
                  \* then its fields and the module global _WMI_MODULE

vars == <<encFile, plansFile, vendorFile, pc, encoding, localized, isLenovo,
          op, arg, raised, ret, calls, observers, notified, peer,
          settingsFile, legionLed>>

disk == <<encFile, plansFile, vendorFile>>
memory == <<pc, encoding, localized, isLenovo>>
controller == <<settingsFile, legionLed>>

(***************************************************************************)
(* Bounds of the model.                                                    *)
(***************************************************************************)
\* the most lines of an external "powercfg /list" output
MaxLines == 2
\* the most observers of a registry
MaxObservers == 2

(***************************************************************************)
(* JSON values (what json.load returns): a tag t and a value v.            *)
(***************************************************************************)
JNull == [t |-> "null", v |-> 0]
JBool(b) == [t |-> "bool", v |-> b]
JNum(n) == [t |-> "num", v |-> n]
JStr(s) == [t |-> "str", v |-> s]
JList(s) == [t |-> "list", v |-> s]
JObj(f) == [t |-> "obj", v |-> f]

\* an external effect: a process started, a file written, a hardware call
Call(name, args) == [call |-> name, args |-> args]

\* a result of a step that may raise
Ok(x) == [ok |-> TRUE, val |-> x]
Raise == [ok |-> FALSE, val |-> JNull]

\* Python truthiness (bool(x))
Truthy(j) ==
    CASE j.t = "null" -> FALSE
      [] j.t = "bool" -> j.v
      [] j.t = "num" -> j.v # 0
      [] j.t = "str" -> j.v # <<>>
      [] j.t = "list" -> j.v # <<>>
      [] j.t = "obj" -> DOMAIN j.v # {}

\* x.get(key): AttributeError unless x is a dict
Get(j, key) ==
    IF j.t # "obj" THEN Raise
    ELSE IF key \in DOMAIN j.v THEN Ok(j.v[key]) ELSE Ok(JNull)

\* x.get(key, default)
GetDefault(j, key, default) ==
    IF j.t # "obj" THEN Raise
    ELSE IF key \in DOMAIN j.v THEN Ok(j.v[key]) ELSE Ok(default)

\* x[key] with a string key: KeyError, or TypeError unless x is a dict
Subscript(j, key) ==
    IF j.t = "obj" /\ key \in DOMAIN j.v THEN Ok(j.v[key]) ELSE Raise

(***************************************************************************)
(* Files.  A file is absent, present but not readable, present with text   *)
(* that is no JSON document, or present with a JSON document.              *)
(***************************************************************************)
Absent == [fs |-> "absent", json |-> JNull]
Unreadable == [fs |-> "unreadable", json |-> JNull]
Corrupt == [fs |-> "corrupt", json |-> JNull]
Doc(j) == [fs |-> "json", json |-> j]

\* os.path.exists(path)
Exists(file) == file.fs # "absent"

\* open(path, 'r') and json.load: raises on a file that cannot be opened or parsed
ReadJson(file) == IF file.fs = "json" THEN Ok(file.json) ELSE Raise

\* open(path, 'w') and json.dump: the file holds the document, or open raised
\* and the file is as it was
WriteJson(file, j, writable) == IF writable THEN Doc(j) ELSE file

(***************************************************************************)
(* Text.                                                                   *)
(***************************************************************************)
GuidBase == 1000
LPAREN == 40
RPAREN == 41
NEWLINE == 10
REPLACEMENT == 65533

Whitespace == {9, 10, 11, 12, 13, 28, 29, 30, 31, 32}

IsGuidToken(c) == c \in GuidBase..(GuidBase + 15)

\* str.lower() on one character
LowerChar(c) ==
    IF IsGuidToken(c) THEN c - (c % 2)
    ELSE IF c \in 65..90 THEN c + 32 ELSE c

Lower(s) == [i \in 1..Len(s) |-> LowerChar(s[i])]

\* the upper-case spelling of an identifier
UpperGuid(g) == g - (g % 2) + 1

\* str.strip()
Strip(s) ==
    LET keep == {i \in 1..Len(s) : s[i] \notin Whitespace}
        first == CHOOSE x \in keep : \A y \in keep : x <= y
        last == CHOOSE x \in keep : \A y \in keep : x >= y
    IN  IF keep = {} THEN <<>> ELSE SubSeq(s, first, last)

\* str.split('\n')
RECURSIVE Split(_)
Split(s) ==
    LET nl == {i \in 1..Len(s) : s[i] = NEWLINE}
        first == CHOOSE i \in nl : \A j \in nl : i <= j
    IN  IF nl = {} THEN <<s>>
        ELSE <<SubSeq(s, 1, first - 1)>> \o Split(SubSeq(s, first + 1, Len(s)))

\* the smallest element of a non-empty set of numbers
Least(S) == CHOOSE x \in S : \A y \in S : x <= y

\* \s+ from position j: the first index from j on that holds no whitespace
\* (Len + 1 if there is none)
SkipWhitespace(line, j) ==
    LET stop == {k \in j..Len(line) : line[k] \notin Whitespace}
    IN  IF stop = {} THEN Len(line) + 1 ELSE Least(stop)

\* [^)]+ from position j: the first index from j on that holds a ")"
\* (Len + 1 if there is none)
SkipToRparen(line, j) ==
    LET stop == {k \in j..Len(line) : line[k] = RPAREN}
    IN  IF stop = {} THEN Len(line) + 1 ELSE Least(stop)

\* the regular expression (UUID)\s+\(([^)]+)\) matched at position i
MatchAt(line, i) ==
    LET k == SkipWhitespace(line, i + 1)
        m == SkipToRparen(line, k + 1)
    IN  /\ IsGuidToken(line[i])
        /\ k > i + 1
        /\ k <= Len(line)
        /\ line[k] = LPAREN
        /\ m > k + 1
        /\ m <= Len(line)

\* re.search of that expression: the leftmost match, its groups 1 and 2
UUID_REGEX_search(line) ==
    LET at == {i \in 1..Len(line) : MatchAt(line, i)}
        i == CHOOSE x \in at : \A y \in at : x <= y
        k == SkipWhitespace(line, i + 1)
        m == SkipToRparen(line, k + 1)
    IN  IF at = {} THEN [found |-> FALSE, g1 |-> 0, g2 |-> <<>>]
        ELSE [found |-> TRUE, g1 |-> line[i], g2 |-> SubSeq(line, k + 1, m - 1)]

(***************************************************************************)
(* SystemEncoding (system_encoding.py).                                    *)
(***************************************************************************)
\* the fixed default token 'cp850'
DEFAULT_ENCODING == <<99, 112, 56, 53, 48>>

\* the codecs of the Python runtime among the tokens of the model:
\* cp437, cp850, cp1252, cp65001 (UTF-8) and utf-8
KnownCodecs ==
    { <<99, 112, 52, 51, 55>>, <<99, 112, 56, 53, 48>>, <<99, 112, 49, 50, 53, 50>>,
      <<99, 112, 54, 53, 48, 48, 49>>, <<117, 116, 102, 45, 56>> }

\* one byte under a codec, errors='replace'; of the bytes above 127 the model
\* has 0x81, 0x94 and 0xF6
DecodeByte(codec, b) ==
    IF b < 128 \/ IsGuidToken(b) THEN b
    ELSE IF codec \in {<<99, 112, 52, 51, 55>>, <<99, 112, 56, 53, 48>>}
    THEN (CASE b = 148 -> 246 [] b = 129 -> 252 [] b = 246 -> 247 [] OTHER -> REPLACEMENT)
    ELSE IF codec = <<99, 112, 49, 50, 53, 50>>
    THEN (CASE b = 148 -> 8221 [] b = 246 -> 246 [] OTHER -> REPLACEMENT)
    ELSE REPLACEMENT

\* bytes.decode(token, errors='replace'): TypeError for a token that is no
\* string, LookupError for an unknown codec (CPython returns '' for empty
\* input before it looks the codec up)
BytesDecode(token, bytes) ==
    IF token.t # "str" THEN Raise
    ELSE IF bytes = <<>> THEN Ok(<<>>)
    ELSE IF Lower(token.v) \notin KnownCodecs THEN Raise
    ELSE Ok([i \in 1..Len(bytes) |-> DecodeByte(Lower(token.v), bytes[i])])

\* SystemEncoding.decode_output
decode_output(enc, output_bytes) == BytesDecode(enc, output_bytes)

\* bytes.decode('ascii', errors='ignore')
AsciiIgnore(bytes) == SelectSeq(bytes, LAMBDA b : b < 128)

\* re.search(r'(\d+)', text): the first maximal run of decimal digits
FirstNumber(text) ==
    LET digits == {i \in 1..Len(text) : text[i] \in 48..57}
        i == Least(digits)
        stop == {k \in i..Len(text) : text[k] \notin 48..57}
        j == IF stop = {} THEN Len(text) + 1 ELSE Least(stop)
    IN  IF digits = {} THEN [found |-> FALSE, g1 |-> <<>>]
        ELSE [found |-> TRUE, g1 |-> SubSeq(text, i, j - 1)]

\* SystemEncoding._detect_encoding; chcp is the outcome of the external
\* console-codepage query: whether it ran, and its output
SystemEncoding_detect_encoding(chcp) ==
    LET match == FirstNumber(AsciiIgnore(chcp.out))
    IN  IF chcp.ok /\ match.found THEN JStr(<<99, 112>> \o match.g1)
        ELSE JStr(DEFAULT_ENCODING)

\* a load that answers a file it cannot read or parse with the default token
SystemEncoding_load_from_cache_default(file) ==
    LET data == ReadJson(file)
        got == Get(data.val, "encoding")
    IN  IF ~Exists(file) THEN JNull
        ELSE IF data.ok /\ got.ok THEN got.val
        ELSE JStr(DEFAULT_ENCODING)

\* SystemEncoding._load_from_cache: None (JNull) on every failure
SystemEncoding_load_from_cache(file) ==
    LET data == ReadJson(file)
        got == Get(data.val, "encoding")
    IN  IF Exists(file) /\ data.ok /\ got.ok THEN got.val ELSE JNull

\* SystemEncoding._save_to_cache
SystemEncoding_save_to_cache(file, enc, writable) ==
    WriteJson(file, JObj([encoding |-> enc]), writable)

\* an initialisation that asks the console again at every startup
SystemEncoding_initialize_redetects(file, chcp, writable) ==
    LET detected == SystemEncoding_detect_encoding(chcp)
    IN  [encoding |-> detected,
         file |-> SystemEncoding_save_to_cache(file, detected, writable),
         calls |-> <<Call("chcp", <<>>), Call("write system_encoding.json", <<>>)>>]

\* SystemEncoding._initialize: the token, the cache file and the external
\* effects after construction
SystemEncoding_initialize(file, chcp, writable) ==
    LET cached_encoding == SystemEncoding_load_from_cache(file)
        detected == SystemEncoding_detect_encoding(chcp)
    IN  IF Truthy(cached_encoding)
        THEN [encoding |-> cached_encoding, file |-> file, calls |-> <<>>]
        ELSE [encoding |-> detected,
              file |-> SystemEncoding_save_to_cache(file, detected, writable),
              calls |-> <<Call("chcp", <<>>), Call("write system_encoding.json", <<>>)>>]

(***************************************************************************)
(* DefaultPowerPlans (default_power_plans.py).                             *)
(***************************************************************************)
GUID_POWER_SAVER == 1000
GUID_BALANCED == 1002
GUID_HIGH_PERFORMANCE == 1004

NAME_POWER_SAVER == <<80, 111, 119, 101, 114, 32, 115, 97, 118, 101, 114>>
NAME_BALANCED == <<66, 97, 108, 97, 110, 99, 101, 100>>
NAME_HIGH_PERFORMANCE ==
    <<72, 105, 103, 104, 32, 112, 101, 114, 102, 111, 114, 109, 97, 110, 99, 101>>

DEFAULT_PLANS_METADATA ==
    (GUID_POWER_SAVER :> [name |-> NAME_POWER_SAVER, icon |-> "Images/power-saver.png"])
    @@ (GUID_BALANCED :> [name |-> NAME_BALANCED, icon |-> "Images/balanced.png"])
    @@ (GUID_HIGH_PERFORMANCE :>
            [name |-> NAME_HIGH_PERFORMANCE, icon |-> "Images/high-performance.png"])

\* the keys of DEFAULT_PLANS_METADATA in the order the dict holds them
MetadataOrder == <<GUID_POWER_SAVER, GUID_BALANCED, GUID_HIGH_PERFORMANCE>>

\* DefaultPowerPlans.is_default_plan: guid in DEFAULT_PLANS_METADATA
is_default_plan(guid) == guid \in DOMAIN DEFAULT_PLANS_METADATA

\* DefaultPowerPlans.get_all_guids
get_all_guids == DOMAIN DEFAULT_PLANS_METADATA

\* DefaultPowerPlans.get_plan: self._localized_plans.get(guid)
get_plan(table, guid) == Get(table, guid)

\* DefaultPowerPlans._load_from_cache
DefaultPowerPlans_load_from_cache(file) ==
    LET data == ReadJson(file)
        got == Get(data.val, "plans")
    IN  IF Exists(file) /\ data.ok /\ got.ok THEN got.val ELSE JNull

\* DefaultPowerPlans._save_to_cache
DefaultPowerPlans_save_to_cache(file, plans, writable) ==
    WriteJson(file, JObj([plans |-> plans]), writable)

\* the first line of lines whose match names guid, as group(2).strip()
RECURSIVE FirstNameFor(_, _)
FirstNameFor(lines, guid) ==
    IF lines = <<>> THEN JNull
    ELSE LET match == UUID_REGEX_search(Head(lines))
         IN  IF match.found /\ LowerChar(match.g1) = LowerChar(guid)
             THEN JStr(Strip(match.g2))
             ELSE FirstNameFor(Tail(lines), guid)

\* DefaultPowerPlans._get_localized_plan_name; query is the outcome of
\* 'powercfg /query <guid>': whether it ran, and its output
get_localized_plan_name(enc, guid, query) ==
    LET output == decode_output(enc, query.out)
    IN  IF query.ok /\ output.ok THEN FirstNameFor(Split(output.val), guid)
        ELSE JNull

\* a build that gives up the localized names of all plans when one query
\* yields none
build_localized_plans_all_or_nothing(enc, queries) ==
    LET names == [guid \in DOMAIN DEFAULT_PLANS_METADATA |->
                    get_localized_plan_name(enc, guid, queries[guid])]
        all == \A guid \in DOMAIN names : Truthy(names[guid])
    IN  JObj([guid \in DOMAIN DEFAULT_PLANS_METADATA |->
                JObj([name |-> IF all THEN names[guid]
                               ELSE JStr(DEFAULT_PLANS_METADATA[guid].name),
                      icon |-> JStr(DEFAULT_PLANS_METADATA[guid].icon)])])

\* DefaultPowerPlans._build_localized_plans; queries maps each identifier to
\* the outcome of its query
build_localized_plans(enc, queries) ==
    JObj([guid \in DOMAIN DEFAULT_PLANS_METADATA |->
            LET localized_name == get_localized_plan_name(enc, guid, queries[guid])
            IN  JObj([name |-> IF Truthy(localized_name) THEN localized_name
                               ELSE JStr(DEFAULT_PLANS_METADATA[guid].name),
                      icon |-> JStr(DEFAULT_PLANS_METADATA[guid].icon)])])

\* an initialisation that rebuilds the catalog at every startup
DefaultPowerPlans_initialize_rebuilds(file, enc, queries, writable) ==
    LET built == build_localized_plans(enc, queries)
    IN  [plans |-> built,
         file |-> DefaultPowerPlans_save_to_cache(file, built, writable),
         calls |-> [i \in 1..Len(MetadataOrder) |->
                               Call("powercfg /query", <<MetadataOrder[i]>>)]
                   \o <<Call("write default_plans.json", <<>>)>>]

\* DefaultPowerPlans._initialize
DefaultPowerPlans_initialize(file, enc, queries, writable) ==
    LET cached_plans == DefaultPowerPlans_load_from_cache(file)
        built == build_localized_plans(enc, queries)
    IN  IF Truthy(cached_plans)
        THEN [plans |-> cached_plans, file |-> file, calls |-> <<>>]
        ELSE [plans |-> built,
              file |-> DefaultPowerPlans_save_to_cache(file, built, writable),
              calls |-> [i \in 1..Len(MetadataOrder) |->
                                    Call("powercfg /query", <<MetadataOrder[i]>>)]
                        \o <<Call("write default_plans.json", <<>>)>>]

(***************************************************************************)
(* PowerPlanManager (main.py).                                             *)
(***************************************************************************)
DEFAULT_APP_ICON == "Images/app.png"

\* the class PowerPlan
PowerPlan(identifier, name, icon_path) ==
    [identifier |-> identifier, name |-> name, icon_path |-> icon_path]

\* plan_info = get_plan(guid); if plan_info: plans.append(PowerPlan(guid,
\* plan_info["name"], plan_info["icon"])).  acc.ok turns FALSE when a step raises.
AppendCatalogPlan(acc, table, guid) ==
    LET plan_info == get_plan(table, guid)
        name == Subscript(plan_info.val, "name")
        icon == Subscript(plan_info.val, "icon")
    IN  IF ~acc.ok THEN acc
        ELSE IF ~plan_info.ok THEN [acc EXCEPT !.ok = FALSE]
        ELSE IF ~Truthy(plan_info.val) THEN acc
        ELSE IF ~name.ok \/ ~icon.ok THEN [acc EXCEPT !.ok = FALSE]
        ELSE [acc EXCEPT !.plans = Append(@, PowerPlan(guid, name.val, icon.val))]

\* the loop body with the embedded default name where the catalog has no entry
ScanLineEmbeddedName(acc, table, line) ==
    LET match == UUID_REGEX_search(line)
        guid == LowerChar(match.g1)
        seen == [acc EXCEPT !.found = @ \cup {guid}]
        plan_info == get_plan(table, guid)
        named(name) == [seen EXCEPT
                          !.plans = Append(@, PowerPlan(guid, name, JStr(DEFAULT_APP_ICON)))]
    IN  IF ~acc.ok \/ ~match.found THEN acc
        ELSE IF ~is_default_plan(guid) THEN named(JStr(Strip(match.g2)))
        ELSE IF ~plan_info.ok THEN [seen EXCEPT !.ok = FALSE]
        ELSE IF Truthy(plan_info.val) THEN AppendCatalogPlan(seen, table, guid)
        ELSE named(JStr(DEFAULT_PLANS_METADATA[guid].name))

\* the loop body with the reported name for every identifier
ScanLineReportedName(acc, table, line) ==
    LET match == UUID_REGEX_search(line)
        guid == LowerChar(match.g1)
        seen == [acc EXCEPT !.found = @ \cup {guid}]
    IN  IF ~acc.ok \/ ~match.found THEN acc
        ELSE [seen EXCEPT
                !.plans = Append(@, PowerPlan(guid, JStr(Strip(match.g2)),
                                              JStr(DEFAULT_APP_ICON)))]

\* the body of the loop over the lines of the list output
ScanLine(acc, table, line) ==
    LET match == UUID_REGEX_search(line)
        guid == LowerChar(match.g1)
        name == JStr(Strip(match.g2))
        seen == [acc EXCEPT !.found = @ \cup {guid}]
        plan_info == get_plan(table, guid)
        system == [seen EXCEPT
                     !.plans = Append(@, PowerPlan(guid, name, JStr(DEFAULT_APP_ICON)))]
    IN  IF ~acc.ok \/ ~match.found THEN acc
        ELSE IF ~is_default_plan(guid) THEN system
        ELSE IF ~plan_info.ok THEN [seen EXCEPT !.ok = FALSE]
        ELSE IF Truthy(plan_info.val) THEN AppendCatalogPlan(seen, table, guid)
        ELSE system

RECURSIVE ScanLines(_, _, _)
ScanLines(acc, table, lines) ==
    IF lines = <<>> THEN acc
    ELSE ScanLines(ScanLine(acc, table, Head(lines)), table, Tail(lines))

\* the loop that adds the default plans the output did not name; order is the
\* iteration order of the set get_all_guids() returns
RECURSIVE AddMissing(_, _, _)
AddMissing(acc, table, order) ==
    IF order = <<>> THEN acc
    ELSE AddMissing(IF Head(order) \in acc.found THEN acc
                    ELSE AppendCatalogPlan(acc, table, Head(order)),
                    table, Tail(order))

\* the loop of the except branch: every default plan of the catalog
RECURSIVE AddDefaults(_, _, _)
AddDefaults(acc, table, order) ==
    IF order = <<>> THEN acc
    ELSE AddDefaults(AppendCatalogPlan(acc, table, Head(order)), table, Tail(order))

\* a < b for two strings: by code point, a proper prefix first
StrLess(a, b) ==
    \E i \in 1..(Len(a) + 1) :
        /\ i - 1 <= Len(b)
        /\ \A j \in 1..(i - 1) : a[j] = b[j]
        /\ \/ i = Len(a) + 1 /\ Len(b) >= i
           \/ i <= Len(a) /\ i <= Len(b) /\ a[i] < b[i]

\* a < b for two values Python can order
KeyLess(a, b) == IF a.t = "str" THEN StrLess(a.v, b.v) ELSE a.v < b.v

\* whether Python orders the names of these plans: all strings or all numbers
Orderable(plans) ==
    \/ Len(plans) <= 1
    \/ \A i \in 1..Len(plans) : plans[i].name.t = "str"
    \/ \A i \in 1..Len(plans) : plans[i].name.t = "num"

\* p put into the sorted sequence s, after every element not greater than it
InsertByName(s, p) ==
    LET greater == {i \in 1..Len(s) : KeyLess(p.name, s[i].name)}
        at == IF greater = {} THEN Len(s) + 1 ELSE Least(greater)
    IN  SubSeq(s, 1, at - 1) \o <<p>> \o SubSeq(s, at, Len(s))

\* the unsorted sequence (a sort that was left out)
Unsorted(plans) == plans

\* sorted(plans, key=lambda plan: plan.name), for plans Python can order: stable
RECURSIVE SortedByName(_)
SortedByName(plans) ==
    IF plans = <<>> THEN <<>>
    ELSE InsertByName(SortedByName(SubSeq(plans, 1, Len(plans) - 1)),
                      plans[Len(plans)])

\* PowerPlanManager.get_all_system_plans; list is the outcome of
\* 'powercfg /list': whether it ran, and its output
get_all_system_plans(enc, table, list, order) ==
    LET start == [ok |-> TRUE, plans |-> <<>>, found |-> {}]
        output == decode_output(enc, list.out)
        scanned == IF list.ok /\ output.ok
                   THEN ScanLines(start, table, Split(output.val))
                   ELSE [start EXCEPT !.ok = FALSE]
        tried == AddMissing(scanned, table, order)
        final == IF tried.ok THEN tried
                 ELSE AddDefaults([tried EXCEPT !.ok = TRUE], table, order)
    IN  IF final.ok /\ Orderable(final.plans)
        THEN Ok(SortedByName(final.plans))
        ELSE Raise

\* PowerPlanManager.switch_to_plan: subprocess.call(["powercfg", "/s", identifier]).
\* outcome is what becomes of the process: "exit0", "nonzero" (subprocess.call
\* returns the exit code) or "cannot_start" (OSError); an identifier that is no
\* string is a TypeError when the command line is built
switch_to_plan(identifier, outcome) ==
    [ok |-> identifier.t = "str" /\ outcome # "cannot_start",
     calls |-> <<Call("powercfg /s", <<identifier>>)>>]

\* PowerPlanSwitcherPlugin.switch_to: the observers it notifies
switch_to_notifies(registry, identifier) == <<>>

(***************************************************************************)
(* LenovoLegionLEDObserver (power_plan_observers.py).                      *)
(***************************************************************************)
LENOVO_POWER_PLANS ==
    (GUID_POWER_SAVER :> 1) @@ (GUID_BALANCED :> 1) @@ (GUID_HIGH_PERFORMANCE :> 2)

\* sub in s, for two strings
Contains(s, sub) ==
    \E i \in 1..(Len(s) - Len(sub) + 1) : SubSeq(s, i, i + Len(sub) - 1) = sub

\* bytes.decode('utf-8', errors='ignore'), for the bytes of the model: none of
\* 0x81, 0x94, 0xF6 starts or continues a valid sequence on its own
Utf8Ignore(bytes) == SelectSeq(bytes, LAMBDA b : b < 128)

\* LenovoLegionLEDObserver._save_cache
LenovoLegionLEDObserver_save_cache(file, is_lenovo, writable) ==
    WriteJson(file, JObj([is_lenovo_system |-> JBool(is_lenovo)]), writable)

\* the detection part of _detect_lenovo_system; wmic holds the outcomes of the
\* manufacturer and the model query
DetectLenovo(file, wmic, writable) ==
    LET manufacturer == Lower(Utf8Ignore(wmic.manufacturer.out))
        model == Lower(Utf8Ignore(wmic.model.out))
        lenovo == <<108, 101, 110, 111, 118, 111>>
        legion == <<108, 101, 103, 105, 111, 110>>
        save(b) == <<Call("write is_lenovo_system.json", <<b>>)>>
        q1 == <<Call("wmic manufacturer", <<>>)>>
        q2 == <<Call("wmic model", <<>>)>>
    IN  IF ~wmic.manufacturer.ok
        THEN [val |-> JBool(FALSE), calls |-> q1 \o save(FALSE),
              file |-> LenovoLegionLEDObserver_save_cache(file, FALSE, writable)]
        ELSE IF ~Contains(manufacturer, lenovo)
        THEN [val |-> JBool(FALSE), calls |-> q1 \o save(FALSE),
              file |-> LenovoLegionLEDObserver_save_cache(file, FALSE, writable)]
        ELSE IF ~wmic.model.ok
        THEN [val |-> JBool(FALSE), calls |-> q1 \o q2 \o save(FALSE),
              file |-> LenovoLegionLEDObserver_save_cache(file, FALSE, writable)]
        ELSE [val |-> JBool(Contains(model, legion)),
              calls |-> q1 \o q2 \o save(Contains(model, legion)),
              file |-> LenovoLegionLEDObserver_save_cache(
                           file, Contains(model, legion), writable)]

\* a detection that does not look at the cache file
detect_lenovo_system_uncached(file, wmic, writable) == DetectLenovo(file, wmic, writable)

\* LenovoLegionLEDObserver._detect_lenovo_system
detect_lenovo_system(file, wmic, writable) ==
    LET data == ReadJson(file)
        got == GetDefault(data.val, "is_lenovo_system", JBool(FALSE))
        read == IF Exists(file) THEN <<Call("read is_lenovo_system.json", <<>>)>>
                ELSE <<>>
        detected == DetectLenovo(file, wmic, writable)
    IN  IF Exists(file) /\ data.ok /\ got.ok
        THEN [val |-> got.val, calls |-> read, file |-> file]
        ELSE [detected EXCEPT !.calls = read \o @]

\* one control surface: the class is missing (enumerating it raises), it has
\* no instance, or the call on its first instance returns or raises
TrySurface(kind, call) ==
    [calls |-> IF kind \in {"ok", "raises"} THEN <<call>> ELSE <<>>,
     done |-> kind = "ok"]

\* the two attempts with no return after a call that returned
TrySurfacesBoth(color_code, hw) ==
    TrySurface(hw.lighting, Call("SetLighting", <<0, color_code, 100>>)).calls
    \o TrySurface(hw.gamezone, Call("SetData", <<color_code>>)).calls

\* the two attempts of _set_led_color, in their order
TrySurfaces(color_code, hw) ==
    LET first == TrySurface(hw.lighting, Call("SetLighting", <<0, color_code, 100>>))
        second == TrySurface(hw.gamezone, Call("SetData", <<color_code>>))
    IN  IF first.done THEN first.calls ELSE first.calls \o second.calls

\* a _set_led_color without its try blocks: a connection that fails and a
\* surface that is missing or raises end the call with the exception
set_led_color_uncaught(color_code, hw) ==
    LET first == TrySurface(hw.lighting, Call("SetLighting", <<0, color_code, 100>>))
    IN  IF ~hw.module THEN [ok |-> TRUE, calls |-> <<>>]
        ELSE IF ~hw.connect THEN [ok |-> FALSE, calls |-> <<>>]
        ELSE IF hw.lighting \in {"missing", "raises"}
        THEN [ok |-> FALSE, calls |-> first.calls]
        ELSE [ok |-> hw.lighting = "ok" \/ hw.gamezone \in {"ok", "none"},
              calls |-> TrySurfaces(color_code, hw)]

\* LenovoLegionLEDObserver._set_led_color; hw is the machine: whether the wmi
\* module was imported, whether the connection is made, and the two surfaces.
\* Every exception is caught inside
set_led_color(color_code, hw) ==
    [ok |-> TRUE,
     calls |-> IF ~hw.module \/ ~hw.connect THEN <<>>
               ELSE TrySurfaces(color_code, hw)]

\* an on_power_plan_activated that decides anew in every call
on_power_plan_activated_redecides(is_lenovo, file, guid, wmic, writable, hw) ==
    LET guid_lower == LowerChar(guid)
        decided == detect_lenovo_system(file, wmic, writable)
        led == set_led_color(LENOVO_POWER_PLANS[guid_lower], hw)
    IN  IF guid_lower \notin DOMAIN LENOVO_POWER_PLANS
        THEN [ok |-> TRUE, val |-> is_lenovo, calls |-> <<>>, file |-> file]
        ELSE IF ~Truthy(decided.val)
        THEN [ok |-> TRUE, val |-> decided.val, calls |-> decided.calls,
              file |-> decided.file]
        ELSE [ok |-> led.ok, val |-> decided.val,
              calls |-> decided.calls \o led.calls, file |-> decided.file]

\* LenovoLegionLEDObserver.on_power_plan_activated: whether it returns,
\* _is_lenovo_system, the cache file and the external effects after the call
on_power_plan_activated(is_lenovo, file, guid, wmic, writable, hw) ==
    LET guid_lower == LowerChar(guid)
        detected == detect_lenovo_system(file, wmic, writable)
        decided == IF is_lenovo = JNull THEN detected
                   ELSE [val |-> is_lenovo, calls |-> <<>>, file |-> file]
        led == set_led_color(LENOVO_POWER_PLANS[guid_lower], hw)
    IN  IF guid_lower \notin DOMAIN LENOVO_POWER_PLANS
        THEN [ok |-> TRUE, val |-> is_lenovo, calls |-> <<>>, file |-> file]
        ELSE IF ~Truthy(decided.val)
        THEN [ok |-> TRUE, val |-> decided.val, calls |-> decided.calls,
              file |-> decided.file]
        ELSE [ok |-> led.ok, val |-> decided.val,
              calls |-> decided.calls \o led.calls, file |-> decided.file]

(***************************************************************************)
(* The activation observer registry.  An observer is "base" (the class     *)
(* PowerPlanActivationObserver, whose on_power_plan_activated does         *)
(* nothing) or "raising" (a subclass whose on_power_plan_activated         *)
(* raises).                                                                *)
(***************************************************************************)
ObserverKinds == {"base", "raising"}

\* one step of notifyAll with nothing caught: what an observer raises ends the loop
NotifyOneUncaught(acc, i, kind, guid) ==
    IF ~acc.ok THEN acc
    ELSE [ok |-> kind # "raising",
          notified |-> Append(acc.notified, [observer |-> i, guid |-> guid])]

\* one step of notifyAll: on_power_plan_activated(guid) is invoked on the
\* observer at index i, and what it raises is caught and discarded
NotifyOne(acc, i, kind, guid) ==
    IF ~acc.ok THEN acc
    ELSE [ok |-> TRUE, notified |-> Append(acc.notified, [observer |-> i, guid |-> guid])]

RECURSIVE NotifyFrom(_, _, _, _)
NotifyFrom(acc, registry, i, guid) ==
    IF i > Len(registry) THEN acc
    ELSE NotifyFrom(NotifyOne(acc, i, registry[i], guid), registry, i + 1, guid)

\* notifyAll(id): every observer in registration order
notify_all(registry, guid) ==
    NotifyFrom([ok |-> TRUE, notified |-> <<>>], registry, 1, guid)

(***************************************************************************)
(* The state after an operation.                                           *)
(***************************************************************************)
EmptyDict == JObj([g \in {} |-> JNull])

Returns(name, input, result, effects) ==
    /\ op' = name
    /\ arg' = input
    /\ raised' = ~result.ok
    /\ ret' = result.val
    /\ calls' = effects

\* PowerPlanSwitcherPlugin.__init__: SystemEncoding, then DefaultPowerPlans
PluginInit(chcp, encWritable, queries, plansWritable) ==
    LET enc == SystemEncoding_initialize(encFile, chcp, encWritable)
        plans == DefaultPowerPlans_initialize(plansFile, enc.encoding, queries,
                                              plansWritable)
    IN  /\ pc = "down"
        /\ pc' = "up"
        /\ encoding' = enc.encoding
        /\ encFile' = enc.file
        /\ localized' = plans.plans
        /\ plansFile' = plans.file
        /\ isLenovo' = JNull
        /\ Returns("init",
                   [encFile |-> encFile, plansFile |-> plansFile, chcp |-> chcp,
                    queries |-> queries, encWritable |-> encWritable,
                    plansWritable |-> plansWritable],
                   Ok(JNull), enc.calls \o plans.calls)
        /\ UNCHANGED <<vendorFile, observers, notified, peer, controller>>

\* PowerPlanSwitcherPlugin() at the end of main.py: the launcher starts one
\* process for one request; when it ends the files stay and the objects are gone
Exit ==
    /\ pc \in {"up", "served"}
    /\ pc' = "down"
    /\ encoding' = JNull
    /\ localized' = EmptyDict
    /\ isLenovo' = JNull
    /\ observers' = <<>>
    /\ notified' = <<>>
    /\ Returns("exit", <<>>, Ok(JNull), <<>>)
    /\ UNCHANGED <<disk, peer, controller>>

\* a call of PowerPlanManager.get_all_system_plans
GetAllSystemPlans(list, order) ==
    /\ pc = "up"
    /\ pc' = "served"
    /\ Returns("get_all_system_plans", [list |-> list, order |-> order],
               get_all_system_plans(encoding, localized, list, order),
               <<Call("powercfg /list", <<>>)>>)
    /\ UNCHANGED <<disk, encoding, localized, isLenovo, observers, notified, peer, controller>>

\* a call of SystemEncoding.decode_output
DecodeOutput(bytes) ==
    /\ pc = "up"
    /\ pc' = "served"
    /\ Returns("decode_output", [bytes |-> bytes],
               decode_output(encoding, bytes), <<>>)
    /\ UNCHANGED <<disk, encoding, localized, isLenovo, observers, notified, peer, controller>>

\* a call of PowerPlanSwitcherPlugin.switch_to
SwitchTo(identifier, outcome) ==
    LET done == switch_to_plan(identifier, outcome)
    IN  /\ pc = "up"
        /\ pc' = "served"
        /\ Returns("switch_to", [identifier |-> identifier, outcome |-> outcome],
                   [ok |-> done.ok, val |-> JNull], done.calls)
        /\ notified' = IF done.ok THEN switch_to_notifies(observers, identifier)
                       ELSE <<>>
        /\ UNCHANGED <<disk, encoding, localized, isLenovo, observers, peer, controller>>

\* register(observer)
Register(kind) ==
    /\ pc = "up"
    /\ Len(observers) < MaxObservers
    /\ observers' = Append(observers, kind)
    /\ notified' = <<>>
    /\ Returns("register", [kind |-> kind], Ok(JNull), <<>>)
    /\ UNCHANGED <<disk, memory, peer, controller>>

\* notifyAll(guid)
NotifyAll(guid) ==
    LET done == notify_all(observers, guid)
    IN  /\ pc = "up"
        /\ notified' = done.notified
        /\ Returns("notify_all", [guid |-> guid], [ok |-> done.ok, val |-> JNull], <<>>)
        /\ UNCHANGED <<disk, memory, observers, peer, controller>>

\* a call of LenovoLegionLEDObserver.on_power_plan_activated
Activated(guid, wmic, writable, hw) ==
    LET done == on_power_plan_activated(isLenovo, vendorFile, guid, wmic, writable, hw)
    IN  /\ pc = "up"
        /\ isLenovo' = done.val
        /\ vendorFile' = done.file
        /\ Returns("on_power_plan_activated",
                   [guid |-> guid, wmic |-> wmic, writable |-> writable, hw |-> hw,
                    vendorFile |-> vendorFile, isLenovo |-> isLenovo],
                   [ok |-> done.ok, val |-> JNull], done.calls)
        /\ UNCHANGED <<encFile, plansFile, pc, encoding, localized, observers, notified, peer, controller>>

(***************************************************************************)
(* The outside world: the files found at startup and the answers of the    *)
(* external commands.                                                      *)
(***************************************************************************)
\* the sequences over S of length at most n
SeqsUpTo(S, n) == UNION {[1..k -> S] : k \in 0..n}

\* the lines of an output, joined by '\n'
RECURSIVE JoinLines(_)
JoinLines(lines) ==
    IF lines = <<>> THEN <<>>
    ELSE IF Len(lines) = 1 THEN lines[1]
    ELSE lines[1] \o <<NEWLINE>> \o JoinLines(Tail(lines))

Ran(out) == [ok |-> TRUE, out |-> out]
Failed == [ok |-> FALSE, out |-> <<>>]

\* identifiers of plans the user made
CustomGuids == {1006, 1008}

\* encoding tokens: 'cp1252', 'cp708' (a Windows codepage Python has no codec for)
CP1252 == <<99, 112, 49, 50, 53, 50>>
CP708 == <<99, 112, 55, 48, 56>>

\* system_encoding.json at startup
EncFiles ==
    { Absent, Unreadable, Corrupt,
      Doc(JList(<<>>)),
      Doc(JObj([other |-> JNull])),
      Doc(JObj([encoding |-> JStr(<<>>)])),
      Doc(JObj([encoding |-> JStr(CP1252)])),
      Doc(JObj([encoding |-> JStr(CP708)])),
      Doc(JObj([encoding |-> JNum(850)])) }

\* the answers of chcp: it cannot be run; "Active code page: 850"; ": 1252.";
\* ": 708"; "8", byte 0x81, "50"; "?"
ChcpOutcomes ==
    { Failed,
      Ran(<<65, 99, 116, 105, 118, 101, 32, 99, 111, 100, 101, 32, 112, 97, 103, 101,
            58, 32, 56, 53, 48>>),
      Ran(<<58, 32, 49, 50, 53, 50, 46>>),
      Ran(<<58, 32, 55, 48, 56>>),
      Ran(<<56, 129, 53, 48>>),
      Ran(<<63>>) }

\* the catalog as built on an English system with every query failing
EntryOf(name, icon) == JObj([name |-> name, icon |-> JStr(icon)])

FullTable ==
    JObj([g \in DOMAIN DEFAULT_PLANS_METADATA |->
            EntryOf(JStr(DEFAULT_PLANS_METADATA[g].name), DEFAULT_PLANS_METADATA[g].icon)])

\* a table with an entry for the balanced plan only
PartialTable ==
    JObj([g \in {GUID_BALANCED} |-> FullTable.v[g]])

\* a table whose entry for the power saver plan is a string
BadEntryTable ==
    JObj([g \in DOMAIN DEFAULT_PLANS_METADATA |->
            IF g = GUID_POWER_SAVER THEN JStr(<<120>>) ELSE FullTable.v[g]])

\* a table whose name of the high performance plan is a number
NumberNameTable ==
    JObj([g \in DOMAIN DEFAULT_PLANS_METADATA |->
            IF g = GUID_HIGH_PERFORMANCE
            THEN EntryOf(JNum(7), DEFAULT_PLANS_METADATA[g].icon)
            ELSE FullTable.v[g]])

\* default_plans.json at startup
PlansFiles ==
    { Absent, Unreadable, Corrupt,
      Doc(JList(<<>>)),
      Doc(JObj([other |-> JNull])),
      Doc(JObj([plans |-> JNull])),
      Doc(JObj([plans |-> FullTable])),
      Doc(JObj([plans |-> PartialTable])),
      Doc(JObj([plans |-> BadEntryTable])),
      Doc(JObj([plans |-> NumberNameTable])),
      Doc(JObj([plans |-> JList(<<JNum(1)>>)])) }

\* is_lenovo_system.json at startup
VendorFiles ==
    { Absent, Unreadable, Corrupt,
      Doc(JList(<<>>)),
      Doc(JObj([other |-> JNull])),
      Doc(JObj([is_lenovo_system |-> JBool(FALSE)])),
      Doc(JObj([is_lenovo_system |-> JBool(TRUE)])) }

\* a line "<guid><gap>(<name>)"
Line(guid, gap, name) == <<guid>> \o gap \o <<LPAREN>> \o name \o <<RPAREN>>

\* the answers of 'powercfg /query <guid>': it fails; a line with the localized
\* name ("Energiesparmodus", "Ausgeglichen", "H" 0x94 "chstleistung"), the
\* identifier in upper case; a line without a name
LocalizedName ==
    (GUID_POWER_SAVER :>
        <<69, 110, 101, 114, 103, 105, 101, 115, 112, 97, 114, 109, 111, 100, 117, 115>>)
    @@ (GUID_BALANCED :> <<65, 117, 115, 103, 101, 103, 108, 105, 99, 104, 101, 110>>)
    @@ (GUID_HIGH_PERFORMANCE :>
        <<72, 148, 99, 104, 115, 116, 108, 101, 105, 115, 116, 117, 110, 103>>)

QueryOutcomes(guid) ==
    { Failed,
      Ran(JoinLines(<< <<58, 32>> \o Line(UpperGuid(guid), <<32, 32>>, LocalizedName[guid]),
                       <<32, 32, 58, 32>> \o Line(1006, <<32, 32>>, <<83>>) >>)),
      Ran(<<58, 32, guid>>) }

AllQueries == {q \in [DOMAIN DEFAULT_PLANS_METADATA -> UNION {QueryOutcomes(g) : g \in DOMAIN DEFAULT_PLANS_METADATA}] :
                 \A g \in DOMAIN q : q[g] \in QueryOutcomes(g)}

\* every query fails; every query answers with the localized name
NoQueries == [g \in DOMAIN DEFAULT_PLANS_METADATA |-> Failed]
GermanQueries ==
    [g \in DOMAIN DEFAULT_PLANS_METADATA |->
        Ran(<<58, 32>> \o Line(UpperGuid(g), <<32, 32>>, LocalizedName[g]))]

\* the lines of 'powercfg /list' outputs: balanced "(X)"; POWER SAVER in upper
\* case "( Z ) *"; a custom plan "(M)"; the same custom plan "<TAB>(a)"; another
\* custom plan "(H" 0x94 ")"; the same "( )"; "Ex"; high performance "(P)" with
\* no gap; high performance "()"
ListLines ==
    { Line(GUID_BALANCED, <<32, 32>>, <<88>>),
      Line(UpperGuid(GUID_POWER_SAVER), <<32>>, <<32, 90, 32>>) \o <<32, 42>>,
      Line(1006, <<32>>, <<77>>),
      Line(1006, <<9>>, <<97>>),
      Line(1008, <<32>>, <<72, 148>>),
      Line(1008, <<32>>, <<32>>),
      <<69, 120>>,
      Line(GUID_HIGH_PERFORMANCE, <<>>, <<80>>),
      Line(GUID_HIGH_PERFORMANCE, <<32>>, <<>>) }

ListOutcomes == {Failed} \cup {Ran(JoinLines(ls)) : ls \in SeqsUpTo(ListLines, MaxLines)}

\* iteration orders of the set get_all_guids() returns
GuidOrders ==
    { MetadataOrder, <<GUID_HIGH_PERFORMANCE, GUID_BALANCED, GUID_POWER_SAVER>> }

(***************************************************************************)
(* Specifications.                                                         *)
(***************************************************************************)
\* the second process is not writing
PeerIdle == [pc |-> "idle", cache |-> "none", doc |-> JNull]

InitFiles(encFiles, plansFiles, vendorFiles, settingsFiles) ==
    /\ encFile \in encFiles
    /\ plansFile \in plansFiles
    /\ vendorFile \in vendorFiles
    /\ settingsFile \in settingsFiles
    /\ pc = "down"
    /\ encoding = JNull
    /\ localized = EmptyDict
    /\ isLenovo = JNull
    /\ op = "none"
    /\ arg = <<>>
    /\ raised = FALSE
    /\ ret = JNull
    /\ calls = <<>>
    /\ observers = <<>>
    /\ notified = <<>>
    /\ peer = PeerIdle
    /\ legionLed = JNull

\* no settings file
InitWith(encFiles, plansFiles, vendorFiles) ==
    InitFiles(encFiles, plansFiles, vendorFiles, {Absent})

\* the plan manager: any catalog cache, a known and an unknown encoding
InitList ==
    InitWith({Absent, Doc(JObj([encoding |-> JStr(CP1252)])),
              Doc(JObj([encoding |-> JStr(CP708)]))},
             PlansFiles, {Absent})

NextList ==
    \/ \E queries \in {NoQueries, GermanQueries} :
           PluginInit(Ran(<<58, 32, 56, 53, 48>>), TRUE, queries, TRUE)
    \/ \E list \in ListOutcomes, order \in GuidOrders : GetAllSystemPlans(list, order)
    \/ Exit

SpecList == InitList /\ [][NextList]_vars

(***************************************************************************)
(* Properties of get_all_system_plans.                                     *)
(***************************************************************************)
Listed == op = "get_all_system_plans" /\ ~raised

\* the lines of the list output as the plan manager reads them
ListedLines ==
    LET output == decode_output(encoding, arg.list.out)
    IN  IF arg.list.ok /\ output.ok THEN Split(output.val) ELSE <<>>

\* the matches of the lines that report an identifier with a name
ListedMatches ==
    {UUID_REGEX_search(ListedLines[i]) : i \in {k \in 1..Len(ListedLines) :
                                                  UUID_REGEX_search(ListedLines[k]).found}}

\* the identifiers the list output reports
ReportedGuids == {LowerChar(m.g1) : m \in ListedMatches}

\* the well-known identifiers the list output reports and the catalog has
\* no entry for
ReportedWithoutEntry ==
    {g \in ReportedGuids \cap get_all_guids : get_plan(localized, g) = Ok(JNull)}

\* the match of the last line that reports g
LastMatchOf(g) ==
    LET at == {k \in 1..Len(ListedLines) :
                 /\ UUID_REGEX_search(ListedLines[k]).found
                 /\ LowerChar(UUID_REGEX_search(ListedLines[k]).g1) = g}
    IN  UUID_REGEX_search(ListedLines[CHOOSE k \in at : \A m \in at : m <= k])

\* C1: the result of get_all_system_plans holds at most one record per
\* identifier, whatever the list output, and the record of a custom identifier
\* reported on several lines is the one of the last such line
C1_OneRecordPerIdentifier ==
    Listed =>
        /\ \A i, j \in 1..Len(ret) :
              ret[i].identifier = ret[j].identifier => i = j
        /\ \A g \in ReportedGuids \ get_all_guids :
              \A i \in 1..Len(ret) :
                  ret[i].identifier = g => ret[i].name = JStr(Strip(LastMatchOf(g).g2))

\* C3: get_all_system_plans never raises, whatever catalog cache was adopted,
\* and when the list invocation fails it returns exactly the well-known
\* default plans, each once
C3_NeverRaisesDefaultsOnFailure ==
    op = "get_all_system_plans" =>
        /\ ~raised
        /\ ~arg.list.ok =>
              /\ Len(ret) = Cardinality(get_all_guids)
              /\ {ret[i].identifier : i \in 1..Len(ret)} = get_all_guids

\* C4: every well-known identifier the list output does not report is in the
\* result of get_all_system_plans, for every catalog adopted at startup
C4_MissingDefaultsIncluded ==
    Listed => \A g \in get_all_guids \ ReportedGuids :
                  \E i \in 1..Len(ret) : ret[i].identifier = g

\* C5: the result of get_all_system_plans is in ascending order of the names
\* its records carry
C5_SortedByName ==
    Listed => \A i, j \in 1..Len(ret) :
                  i < j => ~KeyLess(ret[j].name, ret[i].name)

\* C5 witness: a default plan the output did not report, appended after the
\* scan, is returned before a custom plan the output reported
C5_Witness ==
    /\ Listed
    /\ \E i, j \in 1..Len(ret) :
          /\ i < j
          /\ ret[i].identifier \in get_all_guids \ ReportedGuids
          /\ ret[j].identifier \in CustomGuids
          /\ KeyLess(ret[i].name, ret[j].name)

\* C8 as stated: a well-known identifier reported with a name while the
\* catalog has no entry for it is returned with the embedded default name
C8_EmbeddedDefaultName ==
    Listed => \A g \in ReportedWithoutEntry :
                  /\ \E i \in 1..Len(ret) : ret[i].identifier = g
                  /\ \A i \in 1..Len(ret) :
                        ret[i].identifier = g =>
                            ret[i].name = JStr(DEFAULT_PLANS_METADATA[g].name)

\* C8 amended: a well-known identifier reported with a name while the catalog
\* has no entry for it is returned with the reported name, stripped, and the
\* generic icon
C8_SystemReportedName ==
    Listed => \A g \in ReportedWithoutEntry :
                  /\ \A m \in ListedMatches :
                        LowerChar(m.g1) = g =>
                            \E i \in 1..Len(ret) :
                                ret[i] = PowerPlan(g, JStr(Strip(m.g2)),
                                                   JStr(DEFAULT_APP_ICON))
                  /\ \A i \in 1..Len(ret) :
                        ret[i].identifier = g =>
                            \E m \in ListedMatches :
                                /\ LowerChar(m.g1) = g
                                /\ ret[i] = PowerPlan(g, JStr(Strip(m.g2)),
                                                      JStr(DEFAULT_APP_ICON))

\* C8 witness: such an identifier was reported and a record returned for it
C8_Witness ==
    /\ Listed
    /\ \E g \in ReportedWithoutEntry : \E i \in 1..Len(ret) : ret[i].identifier = g

\* the well-known identifiers the catalog has an entry for
WithEntry ==
    {g \in get_all_guids :
        get_plan(localized, g).ok /\ Truthy(get_plan(localized, g).val)}

\* the record of the catalog entry of g
CatalogRecord(g) == PowerPlan(g, localized.v[g].v["name"], localized.v[g].v["icon"])

\* the record of a reported identifier with its reported name
ReportedRecord(m) ==
    PowerPlan(LowerChar(m.g1), JStr(Strip(m.g2)), JStr(DEFAULT_APP_ICON))

SwitchIdentifiers ==
    { JStr(<<GUID_BALANCED>>), JStr(<<UpperGuid(1006)>>), JStr(<<120>>), JStr(<<>>),
      JNum(5) }

SwitchOutcomes == {"exit0", "nonzero", "cannot_start"}

InitSwitch == InitWith({Absent}, {Absent}, {Absent})

NextSwitch ==
    \/ PluginInit(Ran(<<58, 32, 56, 53, 48>>), TRUE, NoQueries, TRUE)
    \/ \E kind \in ObserverKinds : Register(kind)
    \/ \E identifier \in SwitchIdentifiers, outcome \in SwitchOutcomes :
           SwitchTo(identifier, outcome)
    \/ \E identifier \in SwitchIdentifiers : NotifyAll(identifier)
    \/ Exit

SpecSwitch == InitSwitch /\ [][NextSwitch]_vars

\* every registered observer, in registration order, with the identifier
AllNotified(identifier) ==
    [i \in 1..Len(observers) |-> [observer |-> i, guid |-> identifier]]

\* C2: switch_to never raises, whatever the identifier and whatever becomes
\* of the external process, and starts the process once
C2_SwitchNeverRaises ==
    op = "switch_to" => ~raised /\ Len(calls) = 1

\* C6: a switch dispatched through the facade notifies every registered
\* observer of the identifier, in registration order
C6_SwitchNotifiesObservers ==
    op = "switch_to" /\ ~raised => notified = AllNotified(arg.identifier)

\* C7: notifyAll invokes every registered observer in registration order,
\* also those registered after one that raises, and does not raise
C7_RaisingObserverIsolated ==
    op = "notify_all" => ~raised /\ notified = AllNotified(arg.guid)

\* C7 witness: the registry is [A (raises), B] and B was notified
C7_Witness ==
    /\ op = "notify_all"
    /\ observers = <<"raising", "base">>
    /\ Len(notified) = 2
    /\ notified[2].observer = 2

(***************************************************************************)
(* The encoding resolver.                                                  *)
(***************************************************************************)
\* byte sequences handed to decode_output: none, "A", "H" 0x94, 0x81 0xF6
ByteStrings == {<<>>, <<65>>, <<72, 148>>, <<129, 246>>}

InitEnc == InitWith(EncFiles, {Absent}, {Absent})

NextEnc ==
    \/ \E chcp \in ChcpOutcomes, writable \in BOOLEAN :
           PluginInit(chcp, writable, NoQueries, TRUE)
    \/ \E bytes \in ByteStrings : DecodeOutput(bytes)
    \/ Exit

SpecEnc == InitEnc /\ [][NextEnc]_vars

\* C9: decode_output never raises, whatever token the resolver holds
C9_DecodeNeverRaises ==
    op = "decode_output" => ~raised

(***************************************************************************)
(* The three caches.                                                       *)
(***************************************************************************)
\* guids, inventory answers and machines for the vendor observer
ActivatedGuids == {UpperGuid(GUID_BALANCED), 1006}

\* "LENOVO" and "Legion 5"; "LENOVO" and "ThinkPad"; "Dell"; the manufacturer
\* query fails
WmicOutcomes ==
    { [manufacturer |-> Ran(<<76, 69, 78, 79, 86, 79>>),
       model |-> Ran(<<76, 101, 103, 105, 111, 110, 32, 53>>)],
      [manufacturer |-> Ran(<<76, 69, 78, 79, 86, 79>>),
       model |-> Ran(<<84, 104, 105, 110, 107, 80, 97, 100>>)],
      [manufacturer |-> Ran(<<68, 101, 108, 108>>), model |-> Failed],
      [manufacturer |-> Failed, model |-> Failed] }

NoWmiModule == [module |-> FALSE, connect |-> FALSE, lighting |-> "missing",
                gamezone |-> "missing"]

InitCache ==
    \/ InitWith(EncFiles, {Absent}, {Absent})
    \/ InitWith({Absent}, PlansFiles, {Absent})
    \/ InitWith({Absent}, {Absent}, VendorFiles)

NextCache ==
    \/ \E chcp \in {Failed, Ran(<<58, 32, 49, 50, 53, 50, 46>>), Ran(<<63>>)},
          encWritable \in BOOLEAN,
          queries \in {NoQueries, GermanQueries},
          plansWritable \in BOOLEAN :
           PluginInit(chcp, encWritable, queries, plansWritable)
    \/ \E guid \in ActivatedGuids, wmic \in WmicOutcomes, writable \in BOOLEAN :
           Activated(guid, wmic, writable, NoWmiModule)
    \/ Exit

SpecCache == InitCache /\ [][NextCache]_vars

\* a cache file that is missing, unreadable or no JSON
Unusable(file) == file.fs \in {"absent", "unreadable", "corrupt"}

Called(name) == \E i \in 1..Len(calls) : calls[i].call = name

\* C10: with a cache file that is missing, unreadable or no JSON, each of the
\* three components runs its detection or rebuild, adopts the result, attempts
\* to write it (the file holds it when the write succeeds) and does not raise
C10_UnusableCacheIsCacheMiss ==
    /\ op = "init" /\ Unusable(arg.encFile) =>
          /\ ~raised
          /\ Called("chcp")
          /\ encoding = SystemEncoding_detect_encoding(arg.chcp)
          /\ Called("write system_encoding.json")
          /\ arg.encWritable => encFile = Doc(JObj([encoding |-> encoding]))
    /\ op = "init" /\ Unusable(arg.plansFile) =>
          /\ ~raised
          /\ Called("powercfg /query")
          /\ localized = build_localized_plans(encoding, arg.queries)
          /\ Called("write default_plans.json")
          /\ arg.plansWritable => plansFile = Doc(JObj([plans |-> localized]))
    /\ /\ op = "on_power_plan_activated"
       /\ LowerChar(arg.guid) \in DOMAIN LENOVO_POWER_PLANS
       /\ arg.isLenovo = JNull
       /\ Unusable(arg.vendorFile)
       => /\ ~raised
          /\ Called("wmic manufacturer")
          /\ isLenovo = DetectLenovo(Absent, arg.wmic, FALSE).val
          /\ Called("write is_lenovo_system.json")
          /\ arg.writable => vendorFile = Doc(JObj([is_lenovo_system |-> isLenovo]))

\* C10 witness: an encoding cache that is no JSON was rebuilt from the query
C10_Witness ==
    /\ op = "init"
    /\ arg.encFile = Corrupt
    /\ arg.chcp.ok
    /\ encoding = JStr(CP1252)
    /\ encFile = Doc(JObj([encoding |-> JStr(CP1252)]))

(***************************************************************************)
(* Successive startups.  No cache file exists before the first startup,    *)
(* so every cache a startup finds was written by an earlier one.           *)
(***************************************************************************)
\* the answers of chcp: it cannot be run; ": 1252."; ": 708"; "Active code
\* page: 850"
StartupChcp ==
    { Failed,
      Ran(<<58, 32, 49, 50, 53, 50, 46>>),
      Ran(<<58, 32, 55, 48, 56>>),
      Ran(<<65, 99, 116, 105, 118, 101, 32, 99, 111, 100, 101, 32, 112, 97, 103, 101,
            58, 32, 56, 53, 48>>) }

InitStartup == InitWith({Absent}, {Absent, Corrupt}, {Absent})

NextStartup ==
    \/ \E chcp \in StartupChcp, encWritable \in BOOLEAN,
          queries \in AllQueries, plansWritable \in BOOLEAN :
           PluginInit(chcp, encWritable, queries, plansWritable)
    \/ Exit

SpecStartup == InitStartup /\ [][NextStartup]_vars

\* the cache file a successful write of a detected token leaves
WrittenTokens ==
    {Doc(JObj([encoding |-> SystemEncoding_detect_encoding(chcp)])) : chcp \in StartupChcp}

\* a startup, seen from the state it ends in: one that found a written cache
\* adopts its token, asks nothing and leaves the file; one that detects holds
\* 'cp' and the first number of the answer, or the default token, and the file
\* holds that token when the write succeeds
StartupResolved ==
    op = "init" =>
        /\ arg.encFile \in WrittenTokens =>
              /\ ~Called("chcp")
              /\ encoding = arg.encFile.json.v.encoding
              /\ encFile = arg.encFile
        /\ arg.encFile \notin WrittenTokens =>
              /\ Called("chcp")
              /\ LET number == FirstNumber(AsciiIgnore(arg.chcp.out))
                 IN  encoding = IF arg.chcp.ok /\ number.found
                                THEN JStr(<<99, 112>> \o number.g1)
                                ELSE JStr(DEFAULT_ENCODING)
              /\ arg.encWritable => encFile = Doc(JObj([encoding |-> encoding]))
              /\ ~arg.encWritable => encFile = arg.encFile

\* C11: the console-codepage query runs only in startups that find no written
\* cache; once a token is written the file never changes again and every later
\* startup adopts that token, so it is the same in all of them; the detected
\* token is 'cp' and the first decimal number of the answer, or the default
C11_DetectedOncePerInstall ==
    [][/\ StartupResolved'
       /\ encFile \in WrittenTokens => encFile' = encFile]_vars

\* C11 witness: a startup found the token 'cp1252' an earlier startup wrote,
\* while chcp would now answer 708
C11_Witness ==
    /\ op = "init"
    /\ arg.encFile = Doc(JObj([encoding |-> JStr(CP1252)]))
    /\ arg.chcp = Ran(<<58, 32, 55, 48, 56>>)
    /\ encoding = JStr(CP1252)
    /\ ~Called("chcp")

\* the names on the lines of the answer to the query for guid that report
\* guid, as the catalog reads them: none when the query failed or its output
\* cannot be decoded
QueriedNames(guid) ==
    LET output == decode_output(encoding, arg.queries[guid].out)
        lines == IF arg.queries[guid].ok /\ output.ok THEN Split(output.val) ELSE <<>>
    IN  {Strip(UUID_REGEX_search(lines[i]).g2) :
            i \in {k \in 1..Len(lines) :
                     /\ UUID_REGEX_search(lines[k]).found
                     /\ LowerChar(UUID_REGEX_search(lines[k]).g1) = guid}}

\* the startup built the catalog
CatalogBuilt == op = "init" /\ Called("powercfg /query")

\* C12: a catalog that is built has an entry for every well-known identifier
\* and no other; the name of each is the one its own query reported, the
\* embedded name when it reported none, whatever became of the other queries;
\* the icon is the embedded one; the whole table is written to the cache
C12_BuiltTablePerIdentifier ==
    CatalogBuilt =>
        /\ localized.t = "obj"
        /\ DOMAIN localized.v = get_all_guids
        /\ \A g \in get_all_guids :
              /\ localized.v[g].v.icon = JStr(DEFAULT_PLANS_METADATA[g].icon)
              /\ QueriedNames(g) # {} => localized.v[g].v.name.v \in QueriedNames(g)
              /\ QueriedNames(g) = {} =>
                    localized.v[g].v.name = JStr(DEFAULT_PLANS_METADATA[g].name)
              /\ localized.v[g] =
                    build_localized_plans(
                        encoding, [NoQueries EXCEPT ![g] = arg.queries[g]]).v[g]
        /\ Called("write default_plans.json")
        /\ arg.plansWritable => plansFile = Doc(JObj([plans |-> localized]))

\* C12 witness: the query for the balanced plan failed, the one for the high
\* performance plan reported "Hoechstleistung" with o-umlaut in codepage 850;
\* the table holds "Balanced" and the reported name, and the file holds the table
C12_Witness ==
    /\ CatalogBuilt
    /\ ~arg.queries[GUID_BALANCED].ok
    /\ get_plan(localized, GUID_BALANCED).val.v.name = JStr(NAME_BALANCED)
    /\ get_plan(localized, GUID_HIGH_PERFORMANCE).val.v.name =
          JStr(<<72, 246, 99, 104, 115, 116, 108, 101, 105, 115, 116, 117, 110, 103>>)
    /\ plansFile = Doc(JObj([plans |-> localized]))

\* the value under 'plans' of a cache file, JNull when there is none
PersistedPlans(file) ==
    IF file.fs = "json" /\ file.json.t = "obj" /\ "plans" \in DOMAIN file.json.v
    THEN file.json.v.plans
    ELSE JNull

\* a startup that found a non-empty persisted table, seen from the state it
\* ends in: the table in memory is that value, nothing was asked or written
StartupAdopted ==
    op = "init" /\ Truthy(PersistedPlans(arg.plansFile)) =>
        /\ localized = PersistedPlans(arg.plansFile)
        /\ ~Called("powercfg /query")
        /\ ~Called("write default_plans.json")
        /\ plansFile = arg.plansFile
        /\ localized.t = "obj" =>
              \A g \in DOMAIN localized.v :
                  get_plan(localized, g) = Ok(PersistedPlans(arg.plansFile).v[g])

\* C13: a startup that finds a non-empty persisted table adopts it unchanged,
\* asks nothing and does not rewrite the file; the file is never changed
\* again, so the names one startup persisted are what get_plan returns in
\* every later one
C13_PersistedTableAdopted ==
    [][/\ StartupAdopted'
       /\ Truthy(PersistedPlans(plansFile)) => plansFile' = plansFile]_vars

\* the table of a German system read in codepage 850: "Energiesparmodus",
\* "Ausgeglichen", "Hoechstleistung" with o-umlaut
GermanTable ==
    JObj((GUID_POWER_SAVER :>
            EntryOf(JStr(LocalizedName[GUID_POWER_SAVER]), "Images/power-saver.png"))
         @@ (GUID_BALANCED :>
            EntryOf(JStr(<<65, 117, 115, 103, 101, 103, 108, 105, 99, 104, 101, 110>>),
                    "Images/balanced.png"))
         @@ (GUID_HIGH_PERFORMANCE :>
            EntryOf(JStr(<<72, 246, 99, 104, 115, 116, 108, 101, 105, 115, 116, 117,
                           110, 103>>),
                    "Images/high-performance.png")))

\* C13 witness: a startup whose queries all fail holds the table with
\* "Ausgeglichen" and "Hoechstleistung" that an earlier startup persisted
C13_Witness ==
    /\ op = "init"
    /\ arg.queries = NoQueries
    /\ ~Called("powercfg /query")
    /\ arg.plansFile = Doc(JObj([plans |-> GermanTable]))
    /\ localized = GermanTable
    /\ get_plan(localized, GUID_HIGH_PERFORMANCE) =
          Ok(GermanTable.v[GUID_HIGH_PERFORMANCE])

(***************************************************************************)
(* The vendor LED observer on machines with and without the control        *)
(* surfaces.                                                               *)
(***************************************************************************)
\* the balanced plan in upper case, the high performance plan, a custom plan
LedGuids == {UpperGuid(GUID_BALANCED), GUID_HIGH_PERFORMANCE, 1006}

\* a machine whose connection is made, with its two surfaces
Machine(lighting, gamezone) ==
    [module |-> TRUE, connect |-> TRUE, lighting |-> lighting, gamezone |-> gamezone]

\* no wmi module; the connection fails; machines with the surfaces
Machines ==
    { NoWmiModule,
      [module |-> TRUE, connect |-> FALSE, lighting |-> "missing", gamezone |-> "missing"],
      Machine("ok", "ok"), Machine("raises", "ok"), Machine("raises", "raises"),
      Machine("none", "ok"), Machine("missing", "none"), Machine("none", "missing") }

InitLed == InitWith({Absent}, {Absent}, VendorFiles)

NextLed ==
    \/ PluginInit(Ran(<<58, 32, 56, 53, 48>>), TRUE, NoQueries, TRUE)
    \/ \E guid \in LedGuids, wmic \in WmicOutcomes, writable \in BOOLEAN,
          hw \in Machines :
           Activated(guid, wmic, writable, hw)
    \/ Exit

SpecLed == InitLed /\ [][NextLed]_vars

HoldsFalse == Doc(JObj([is_lenovo_system |-> JBool(FALSE)]))

HardwareCalls == {"SetLighting", "SetData"}
InventoryCalls == {"wmic manufacturer", "wmic model"}

\* an activation that found false in the cache file, seen from the state it
\* ends in
ActivatedOnFalse ==
    op = "on_power_plan_activated" /\ arg.vendorFile = HoldsFalse =>
        /\ \A i \in 1..Len(calls) :
              calls[i].call \notin HardwareCalls \cup InventoryCalls
        /\ isLenovo \in {JNull, JBool(FALSE)}

\* C14: once the vendor cache file holds false it keeps holding false, and no
\* activation, for any identifier, repeated or in a later process, calls a
\* control surface or asks the hardware inventory
C14_FalseCacheNoHardware ==
    [][/\ ActivatedOnFalse'
       /\ vendorFile = HoldsFalse => vendorFile' = HoldsFalse]_vars

\* C14 witness: a second activation for the high performance plan on a Legion
\* whose surfaces work, with false in the file, did nothing
C14_Witness ==
    /\ op = "on_power_plan_activated"
    /\ arg.vendorFile = HoldsFalse
    /\ arg.isLenovo = JBool(FALSE)
    /\ arg.guid = GUID_HIGH_PERFORMANCE
    /\ arg.wmic.model = Ran(<<76, 101, 103, 105, 111, 110, 32, 53>>)
    /\ arg.hw.connect /\ arg.hw.lighting = "ok"
    /\ calls = <<>>

\* C15: on_power_plan_activated never raises, whatever the cache file, the
\* inventory answers, the wmi module, the connection and the surfaces
C15_ActivationNeverRaises ==
    op = "on_power_plan_activated" => ~raised

\* C15 witness: on an applicable machine both surfaces were called and raised,
\* and the activation returned
C15_Witness ==
    /\ op = "on_power_plan_activated"
    /\ ~raised
    /\ arg.hw.lighting = "raises" /\ arg.hw.gamezone = "raises"
    /\ \A name \in HardwareCalls : Called(name)

\* C16: the first activation of an observer, whatever the identifier, leaves
\* it NotApplicable or Applicable: with the persisted boolean when the file
\* holds one, with the detected one otherwise
C16_FirstCallDecides ==
    op = "on_power_plan_activated" /\ arg.isLenovo = JNull =>
        /\ isLenovo \in {JBool(FALSE), JBool(TRUE)}
        /\ \A b \in BOOLEAN :
              arg.vendorFile = Doc(JObj([is_lenovo_system |-> JBool(b)])) =>
                  isLenovo = JBool(b)

(***************************************************************************)
(* The cache files as text: what json.dump writes and json.load reads.     *)
(* A text is a sequence of code points; an identifier token stands for the *)
(* 36 ASCII characters of the UUID and a word token for the ASCII          *)
(* characters of one of the fixed words below.                             *)
(***************************************************************************)
WordBase == 2000

\* the keys of the three documents and the icon paths
Words ==
    <<"encoding", "plans", "name", "icon", "is_lenovo_system",
      "Images/power-saver.png", "Images/balanced.png",
      "Images/high-performance.png", "Images/app.png">>

IsWordToken(c) == c \in (WordBase + 1)..(WordBase + Len(Words))
WordToken(w) == WordBase + CHOOSE i \in 1..Len(Words) : Words[i] = w
WordOf(c) == Words[c - WordBase]

QUOTE == 34
BACKSLASH == 92

\* the two-character escapes of JSON: character -> letter after the backslash
EscapeLetter ==
    (34 :> 34) @@ (92 :> 92) @@ (10 :> 110) @@ (13 :> 114) @@ (9 :> 116)
    @@ (8 :> 98) @@ (12 :> 102)

\* letter after the backslash -> character ('/' may be escaped too)
UnescapeLetter ==
    (34 :> 34) @@ (92 :> 92) @@ (47 :> 47) @@ (110 :> 10) @@ (114 :> 13)
    @@ (116 :> 9) @@ (98 :> 8) @@ (102 :> 12)

\* one hexadecimal digit, lower case, and the value of one
HexDigit(d) == IF d < 10 THEN 48 + d ELSE 87 + d
HexValue(c) ==
    IF c \in 48..57 THEN c - 48
    ELSE IF c \in 97..102 THEN c - 87
    ELSE IF c \in 65..70 THEN c - 55
    ELSE 16

\* a string written with no character escaped
JsonEscapeNone(chars) == chars

\* json.dump(..., ensure_ascii=False) on the characters of a string: the
\* quote, the backslash and the control characters are escaped
RECURSIVE JsonEscape(_)
JsonEscape(chars) ==
    IF chars = <<>> THEN <<>>
    ELSE LET c == Head(chars)
             out == IF c \in DOMAIN EscapeLetter THEN <<BACKSLASH, EscapeLetter[c]>>
                    ELSE IF c < 32
                    THEN <<BACKSLASH, 117, 48, 48, HexDigit(c \div 16), HexDigit(c % 16)>>
                    ELSE <<c>>
         IN  out \o JsonEscape(Tail(chars))

JsonString(chars) == <<QUOTE>> \o JsonEscape(chars) \o <<QUOTE>>
JsonWord(w) == <<QUOTE, WordToken(w), QUOTE>>

\* the newline and the indentation json.dump(indent=2) writes at depth n
NewlineIndent(n) == <<NEWLINE>> \o [i \in 1..(2 * n) |-> 32]

\* the UTF-8 bytes of one code point (a token stands for ASCII characters)
Utf8Bytes(c) ==
    IF c < 128 \/ IsGuidToken(c) \/ IsWordToken(c) THEN <<c>>
    ELSE IF c < 2048 THEN <<192 + (c \div 64), 128 + (c % 64)>>
    ELSE <<224 + (c \div 4096), 128 + ((c \div 64) % 64), 128 + (c % 64)>>

\* str.encode('utf-8'), as the text file object does on write; the text is
\* encoded half by half
RECURSIVE Utf8Encode(_)
Utf8Encode(text) ==
    IF text = <<>> THEN <<>>
    ELSE IF Len(text) = 1 THEN Utf8Bytes(text[1])
    ELSE Utf8Encode(SubSeq(text, 1, Len(text) \div 2))
         \o Utf8Encode(SubSeq(text, Len(text) \div 2 + 1, Len(text)))

\* a byte that continues a character
IsContinuation(b) == b \in 128..191

\* bytes.decode('utf-8') from the first byte on: raises on a byte sequence
\* that is no UTF-8
RECURSIVE Utf8DecodeRun(_, _)
Utf8DecodeRun(bytes, acc) ==
    IF bytes = <<>> THEN Ok(acc)
    ELSE LET b == Head(bytes)
             cont(k) == k <= Len(bytes) /\ IsContinuation(bytes[k])
         IN  IF b < 128 \/ IsGuidToken(b) \/ IsWordToken(b)
             THEN Utf8DecodeRun(Tail(bytes), Append(acc, b))
             ELSE IF b \in 194..223 /\ cont(2)
             THEN Utf8DecodeRun(SubSeq(bytes, 3, Len(bytes)),
                                Append(acc, (b - 192) * 64 + (bytes[2] - 128)))
             ELSE IF b \in 224..239 /\ cont(2) /\ cont(3)
                     /\ (b - 224) * 4096 + (bytes[2] - 128) * 64 >= 2048
             THEN Utf8DecodeRun(SubSeq(bytes, 4, Len(bytes)),
                                Append(acc, (b - 224) * 4096 + (bytes[2] - 128) * 64
                                            + (bytes[3] - 128)))
             ELSE Raise

\* bytes.decode('utf-8'), as the text file object does on read; a long text
\* is decoded in two parts, cut before a byte that starts a character
RECURSIVE Utf8Decode(_)
Utf8Decode(bytes) ==
    LET starts == {i \in (Len(bytes) \div 2 + 1)..Len(bytes) : ~IsContinuation(bytes[i])}
        cut == Least(starts)
        left == Utf8Decode(SubSeq(bytes, 1, cut - 1))
        right == Utf8Decode(SubSeq(bytes, cut, Len(bytes)))
    IN  IF Len(bytes) <= 8 \/ starts = {} THEN Utf8DecodeRun(bytes, <<>>)
        ELSE IF left.ok /\ right.ok THEN Ok(left.val \o right.val)
        ELSE Raise

\* a result of the parser: the value and the position after it
Parsed(val, pos) == [ok |-> TRUE, val |-> val, pos |-> pos]
NotParsed == [ok |-> FALSE, val |-> JNull, pos |-> 0]

\* the position of the first character at or after i that is no JSON whitespace
RECURSIVE JsonSkip(_, _)
JsonSkip(text, i) ==
    IF i <= Len(text) /\ text[i] \in {32, 9, 10, 13} THEN JsonSkip(text, i + 1) ELSE i

\* the characters of a string literal whose opening quote is before i
RECURSIVE ScanString(_, _, _)
ScanString(text, i, acc) ==
    IF i > Len(text) THEN NotParsed
    ELSE IF text[i] = QUOTE THEN Parsed(acc, i + 1)
    ELSE IF text[i] < 32 THEN NotParsed
    ELSE IF text[i] # BACKSLASH THEN ScanString(text, i + 1, Append(acc, text[i]))
    ELSE IF i + 1 > Len(text) THEN NotParsed
    ELSE IF text[i + 1] \in DOMAIN UnescapeLetter
    THEN ScanString(text, i + 2, Append(acc, UnescapeLetter[text[i + 1]]))
    ELSE IF /\ text[i + 1] = 117
            /\ i + 5 <= Len(text)
            /\ \A k \in (i + 2)..(i + 5) : HexValue(text[k]) < 16
    THEN ScanString(text, i + 6,
                    Append(acc, HexValue(text[i + 2]) * 4096 + HexValue(text[i + 3]) * 256
                                + HexValue(text[i + 4]) * 16 + HexValue(text[i + 5])))
    ELSE NotParsed

\* text[i..] starts with the letters of a literal
StartsWith(text, i, letters) ==
    /\ i + Len(letters) - 1 <= Len(text)
    /\ SubSeq(text, i, i + Len(letters) - 1) = letters

\* the characters of a string as a value and as a key of the model: an icon
\* path and a document key are the word, an identifier is its token
StringValue(chars) ==
    IF Len(chars) = 1 /\ IsWordToken(chars[1]) THEN JStr(WordOf(chars[1])) ELSE JStr(chars)
KeyValue(chars) == IF IsWordToken(chars[1]) THEN WordOf(chars[1]) ELSE chars[1]

\* the dict of the members in pairs; of two members with one key the later wins
MakeDict(pairs) ==
    JObj([key \in {pairs[k][1] : k \in 1..Len(pairs)} |->
            pairs[CHOOSE k \in 1..Len(pairs) :
                    /\ pairs[k][1] = key
                    /\ \A m \in (k + 1)..Len(pairs) : pairs[m][1] # key][2]])

\* the value at i and the members of an object from i on (i is the position
\* of a key)
RECURSIVE ParseValue(_, _), ParseMembers(_, _, _)
ParseValue(text, i) ==
    LET j == JsonSkip(text, i)
        string == ScanString(text, j + 1, <<>>)
        inside == JsonSkip(text, j + 1)
    IN  IF j > Len(text) THEN NotParsed
        ELSE IF text[j] = QUOTE
        THEN IF string.ok THEN Parsed(StringValue(string.val), string.pos) ELSE NotParsed
        ELSE IF text[j] = 123
        THEN IF inside <= Len(text) /\ text[inside] = 125
             THEN Parsed(EmptyDict, inside + 1)
             ELSE ParseMembers(text, inside, <<>>)
        ELSE IF StartsWith(text, j, <<116, 114, 117, 101>>) THEN Parsed(JBool(TRUE), j + 4)
        ELSE IF StartsWith(text, j, <<102, 97, 108, 115, 101>>)
        THEN Parsed(JBool(FALSE), j + 5)
        ELSE IF StartsWith(text, j, <<110, 117, 108, 108>>) THEN Parsed(JNull, j + 4)
        ELSE NotParsed

ParseMembers(text, i, acc) ==
    LET key == ScanString(text, i + 1, <<>>)
        colon == JsonSkip(text, key.pos)
        value == ParseValue(text, colon + 1)
        after == JsonSkip(text, value.pos)
        pairs == Append(acc, <<KeyValue(key.val), value.val>>)
    IN  IF i > Len(text) \/ text[i] # QUOTE \/ ~key.ok \/ Len(key.val) # 1 THEN NotParsed
        ELSE IF colon > Len(text) \/ text[colon] # 58 \/ ~value.ok THEN NotParsed
        ELSE IF after > Len(text) THEN NotParsed
        ELSE IF text[after] = 125 THEN Parsed(MakeDict(pairs), after + 1)
        ELSE IF text[after] = 44 THEN ParseMembers(text, JsonSkip(text, after + 1), pairs)
        ELSE NotParsed

\* json.load on the text of a file: the value, or it raises
json_load(text) ==
    LET value == ParseValue(text, 1)
    IN  IF value.ok /\ JsonSkip(text, value.pos) > Len(text) THEN Ok(value.val) ELSE Raise

\* SystemEncoding._save_to_cache: the bytes of
\* json.dump({'encoding': encoding}, f, ensure_ascii=False, indent=2)
SystemEncoding_dump(enc) ==
    Utf8Encode(<<123>> \o NewlineIndent(1) \o JsonWord("encoding") \o <<58, 32>>
               \o JsonString(enc.v) \o NewlineIndent(0) \o <<125>>)

\* one entry of the table as json.dump writes it at depth 2
RECURSIVE DumpEntries(_, _)
DumpEntries(plans, order) ==
    IF order = <<>> THEN <<>>
    ELSE NewlineIndent(2) \o <<QUOTE, Head(order), QUOTE, 58, 32, 123>>
         \o NewlineIndent(3) \o JsonWord("name") \o <<58, 32>>
         \o JsonString(plans.v[Head(order)].v.name.v) \o <<44>>
         \o NewlineIndent(3) \o JsonWord("icon") \o <<58, 32>>
         \o JsonWord(plans.v[Head(order)].v.icon.v)
         \o NewlineIndent(2) \o <<125>>
         \o (IF Len(order) > 1 THEN <<44>> ELSE <<>>)
         \o DumpEntries(plans, Tail(order))

\* DefaultPowerPlans._save_to_cache: the bytes of
\* json.dump({'plans': plans}, f, ensure_ascii=False, indent=2)
DefaultPowerPlans_dump(plans) ==
    Utf8Encode(<<123>> \o NewlineIndent(1) \o JsonWord("plans") \o <<58, 32, 123>>
               \o DumpEntries(plans, MetadataOrder)
               \o NewlineIndent(1) \o <<125>> \o NewlineIndent(0) \o <<125>>)

\* LenovoLegionLEDObserver._save_cache: the text of
\* json.dump({'is_lenovo_system': is_lenovo}, f), all ASCII, which every
\* locale encoding of open(path, 'w') writes byte for byte
LenovoLegionLEDObserver_dump(is_lenovo) ==
    <<123>> \o JsonWord("is_lenovo_system") \o <<58, 32>>
    \o (IF is_lenovo THEN <<116, 114, 117, 101>> ELSE <<102, 97, 108, 115, 101>>)
    \o <<125>>

\* the try block of the three loaders: open, json.load, data.get(key), and
\* None (the default for the vendor cache) when any of it raises
LoadKey(bytes, key, default, missing) ==
    LET text == Utf8Decode(bytes)
        data == IF text.ok THEN json_load(text.val) ELSE Raise
        got == IF data.ok THEN GetDefault(data.val, key, default) ELSE Raise
    IN  IF got.ok THEN got.val ELSE missing

\* a save followed by a load of the same file
SaveThenLoad(cache, value, bytes, read) ==
    /\ Returns("save_then_load", [cache |-> cache, value |-> value, bytes |-> bytes],
               Ok(read), <<>>)
    /\ UNCHANGED <<disk, memory, observers, notified, peer, controller>>

\* SystemEncoding: _save_to_cache(detected token), then _load_from_cache
SaveLoadEncoding(chcp) ==
    LET value == SystemEncoding_detect_encoding(chcp)
        bytes == SystemEncoding_dump(value)
    IN  SaveThenLoad("encoding", value, bytes, LoadKey(bytes, "encoding", JNull, JNull))

\* DefaultPowerPlans: _save_to_cache(built table), then _load_from_cache
SaveLoadPlans(enc, queries) ==
    LET value == build_localized_plans(enc, queries)
        bytes == DefaultPowerPlans_dump(value)
    IN  SaveThenLoad("plans", value, bytes, LoadKey(bytes, "plans", JNull, JNull))

\* LenovoLegionLEDObserver: _save_cache(is_lenovo), then the cache read of
\* _detect_lenovo_system; a read that fails goes on to the detection
SaveLoadVendor(is_lenovo) ==
    LET bytes == LenovoLegionLEDObserver_dump(is_lenovo)
    IN  SaveThenLoad("vendor", JBool(is_lenovo), bytes,
                     LoadKey(bytes, "is_lenovo_system", JBool(FALSE), JNull))

\* the answers of 'powercfg /query <guid>' with names that need care in a
\* file: "H" 0x94; quote, backslash, TAB, "A"; 0x81 "/"
TextNames == {<<72, 148>>, <<QUOTE, BACKSLASH, 9, 65>>, <<129, 47>>}

TextOutcomes(guid) ==
    {Failed} \cup {Ran(Line(guid, <<32>>, n)) : n \in TextNames}

TextQueries ==
    {q \in [DOMAIN DEFAULT_PLANS_METADATA ->
               UNION {TextOutcomes(g) : g \in DOMAIN DEFAULT_PLANS_METADATA}] :
        \A g \in DOMAIN q : q[g] \in TextOutcomes(g)}

InitText == InitWith({Absent}, {Absent}, {Absent})

NextText ==
    \/ \E chcp \in ChcpOutcomes : SaveLoadEncoding(chcp)
    \/ \E enc \in {JStr(DEFAULT_ENCODING), JStr(CP1252)}, queries \in TextQueries :
           SaveLoadPlans(enc, queries)
    \/ \E is_lenovo \in BOOLEAN : SaveLoadVendor(is_lenovo)

SpecText == InitText /\ [][NextText]_vars

\* C17: for each of the three caches, what a load reads from the file a save
\* wrote is the value that was saved: the token, the whole table, the boolean
C17_SaveThenLoadRoundTrip ==
    op = "save_then_load" => ~raised /\ ret = arg.value

\* C17 witness: a table whose balanced plan is named quote, backslash, TAB,
\* "A" was written with the three escaped and read back
C17_Witness ==
    /\ op = "save_then_load"
    /\ arg.cache = "plans"
    /\ arg.value.v[GUID_BALANCED].v.name = JStr(<<QUOTE, BACKSLASH, 9, 65>>)
    /\ Contains(arg.bytes, <<BACKSLASH, QUOTE, BACKSLASH, BACKSLASH, BACKSLASH, 116, 65>>)
    /\ ret = arg.value

(***************************************************************************)
(* Two plugin processes.  The second one is seen only through its cache    *)
(* writes: _save_to_cache opens the file with open(path, 'w'), which       *)
(* empties it, and json.dump fills it before the with block closes it.     *)
(***************************************************************************)
\* a file between the open(path, 'w') and the end of the write: its text,
\* empty or written in part, is no JSON document
Truncated == [fs |-> "corrupt", json |-> JNull]

\* the second process found no usable cache and opens the file to write doc
PeerOpens(cache, doc) ==
    /\ peer = PeerIdle
    /\ peer' = [pc |-> "writing", cache |-> cache, doc |-> doc]
    /\ \/ /\ cache = "encoding"
          /\ ~Truthy(SystemEncoding_load_from_cache(encFile))
          /\ encFile' = Truncated
          /\ UNCHANGED <<plansFile, vendorFile>>
       \/ /\ cache = "plans"
          /\ ~Truthy(DefaultPowerPlans_load_from_cache(plansFile))
          /\ plansFile' = Truncated
          /\ UNCHANGED <<encFile, vendorFile>>
    /\ UNCHANGED <<memory, op, arg, raised, ret, calls, observers, notified, controller>>

\* SystemEncoding._save_to_cache of the second process begins
PeerOpensEncoding(chcp) ==
    PeerOpens("encoding", JObj([encoding |-> SystemEncoding_detect_encoding(chcp)]))

\* DefaultPowerPlans._save_to_cache of the second process begins
PeerOpensPlans(chcp, queries) ==
    PeerOpens("plans",
              JObj([plans |-> build_localized_plans(SystemEncoding_detect_encoding(chcp),
                                                    queries)]))

\* json.dump of the second process is done and the file is closed; the file
\* holds its document, whatever another process wrote meanwhile
PeerCloses ==
    /\ peer.pc = "writing"
    /\ peer' = PeerIdle
    /\ \/ /\ peer.cache = "encoding"
          /\ encFile' = Doc(peer.doc)
          /\ UNCHANGED <<plansFile, vendorFile>>
       \/ /\ peer.cache = "plans"
          /\ plansFile' = Doc(peer.doc)
          /\ UNCHANGED <<encFile, vendorFile>>
    /\ UNCHANGED <<memory, op, arg, raised, ret, calls, observers, notified, controller>>

\* chcp answers ": 1252." or cannot be run
RaceChcp == {Ran(<<58, 32, 49, 50, 53, 50, 46>>), Failed}

InitRace == InitWith({Absent}, {Absent}, {Absent})

NextRace ==
    \/ \E chcp \in RaceChcp, queries \in {NoQueries, GermanQueries} :
           PluginInit(chcp, TRUE, queries, TRUE)
    \/ Exit
    \/ \E chcp \in RaceChcp : PeerOpensEncoding(chcp)
    \/ \E chcp \in RaceChcp, queries \in {NoQueries, GermanQueries} :
           PeerOpensPlans(chcp, queries)
    \/ PeerCloses

SpecRace == InitRace /\ [][NextRace]_vars

\* C18: a process that starts while another rewrites a cache finds each cache
\* file absent or holding a complete document, never empty or written in part
C18_AtomicRewrite ==
    op = "init" =>
        /\ arg.encFile.fs \in {"absent", "json"}
        /\ arg.plansFile.fs \in {"absent", "json"}

(***************************************************************************)
(* The accessors of the catalog.                                           *)
(***************************************************************************)
\* a call of DefaultPowerPlans.is_default_plan
IsDefaultPlan(guid) ==
    /\ pc = "up"
    /\ pc' = "served"
    /\ Returns("is_default_plan", [guid |-> guid], Ok(JBool(is_default_plan(guid))), <<>>)
    /\ UNCHANGED <<disk, encoding, localized, isLenovo, observers, notified, peer, controller>>

\* a call of DefaultPowerPlans.get_plan
GetPlan(guid) ==
    /\ pc = "up"
    /\ pc' = "served"
    /\ Returns("get_plan", [guid |-> guid], get_plan(localized, guid), <<>>)
    /\ UNCHANGED <<disk, encoding, localized, isLenovo, observers, notified, peer, controller>>

\* a call of DefaultPowerPlans.get_all_guids
GetAllGuids ==
    /\ pc = "up"
    /\ pc' = "served"
    /\ Returns("get_all_guids", <<>>, Ok(get_all_guids), <<>>)
    /\ UNCHANGED <<disk, encoding, localized, isLenovo, observers, notified, peer, controller>>

\* the three well-known identifiers and two others, in lower and in upper case
LookupGuids == GuidBase..(GuidBase + 9)

InitCatalog == InitWith({Absent}, {Absent, Doc(JObj([plans |-> PartialTable]))}, {Absent})

NextCatalog ==
    \/ \E chcp \in StartupChcp, queries \in AllQueries : PluginInit(chcp, TRUE, queries, TRUE)
    \/ \E guid \in LookupGuids : IsDefaultPlan(guid)
    \/ \E guid \in LookupGuids : GetPlan(guid)
    \/ GetAllGuids
    \/ Exit

SpecCatalog == InitCatalog /\ [][NextCatalog]_vars

\* the identifiers of the plans Windows ships, in lower case
WellKnown == {GUID_POWER_SAVER, GUID_BALANCED, GUID_HIGH_PERFORMANCE}

\* C19: is_default_plan is true exactly for the well-known identifiers, in
\* lower or in upper case; get_plan finds the record of a well-known identifier
\* in either case; get_all_guids is the set of the well-known identifiers
C19_DefaultsCaseInsensitive ==
    /\ op = "is_default_plan" =>
          ~raised /\ ret = JBool(LowerChar(arg.guid) \in WellKnown)
    /\ op = "get_plan" /\ LowerChar(arg.guid) \in DOMAIN localized.v =>
          ~raised /\ ret = localized.v[LowerChar(arg.guid)]
    /\ op = "get_all_guids" => ~raised /\ ret = WellKnown

(***************************************************************************)
(* LenovoLegionLED (lenovo_legion_led.py): the power LED controller that   *)
(* reads its settings file when it is constructed.                         *)
(***************************************************************************)
POWER_PLAN_LED_COLORS ==
    (GUID_POWER_SAVER :> "white") @@ (GUID_BALANCED :> "white")
    @@ (GUID_HIGH_PERFORMANCE :> "red")

WMI_COLOR_CODES == [white |-> 1, red |-> 2, blue |-> 3]

WMI_LED_ZONE_POWER == 0
WMI_LED_BRIGHTNESS_MAX == 100

\* LenovoLegionLED._load_settings: the value of _enabled after it, which is
\* what data.get returned, or False
LenovoLegionLED_load_settings(file) ==
    LET data == ReadJson(file)
        got == GetDefault(data.val, "lenovo_legion_led_enabled", JBool(FALSE))
    IN  IF ~Exists(file) THEN JBool(FALSE)
        ELSE IF data.ok /\ got.ok THEN got.val
        ELSE JBool(FALSE)

\* LenovoLegionLED._check_device: the value of _is_legion_device after it and
\* the inventory queries it ran
LenovoLegionLED_check_device(wmic) ==
    LET output == Lower(Utf8Ignore(wmic.manufacturer.out))
        model_output == Lower(Utf8Ignore(wmic.model.out))
        q1 == <<Call("wmic manufacturer", <<>>)>>
        q2 == <<Call("wmic model", <<>>)>>
    IN  IF ~wmic.manufacturer.ok THEN [val |-> FALSE, calls |-> q1]
        ELSE IF ~Contains(output, <<108, 101, 110, 111, 118, 111>>)
        THEN [val |-> FALSE, calls |-> q1]
        ELSE IF ~wmic.model.ok THEN [val |-> FALSE, calls |-> q1 \o q2]
        ELSE [val |-> Contains(model_output, <<108, 101, 103, 105, 111, 110>>),
              calls |-> q1 \o q2]

\* LenovoLegionLED.__init__ and _initialize; module is whether "import wmi"
\* succeeded when lenovo_legion_led.py was loaded (_WMI_MODULE is not None)
LenovoLegionLED_initialize(file, wmic, module) ==
    LET enabled == LenovoLegionLED_load_settings(file)
        device == LenovoLegionLED_check_device(wmic)
    IN  IF Truthy(enabled)
        THEN [led |-> [enabled |-> enabled,
                       is_legion_device |-> device.val,
                       wmi_available |-> module,
                       wmi_module |-> module],
              calls |-> device.calls]
        ELSE [led |-> [enabled |-> enabled,
                       is_legion_device |-> FALSE,
                       wmi_available |-> FALSE,
                       wmi_module |-> module],
              calls |-> <<>>]

\* LenovoLegionLED.is_supported; windows is platform.system() == "Windows"
LenovoLegionLED_is_supported(led, windows) ==
    Truthy(led.enabled) /\ led.is_legion_device /\ windows

\* LenovoLegionLED._get_led_color_for_plan
LenovoLegionLED_get_led_color_for_plan(power_plan_guid) ==
    LET guid_lower == LowerChar(power_plan_guid)
    IN  IF guid_lower \in DOMAIN POWER_PLAN_LED_COLORS
        THEN POWER_PLAN_LED_COLORS[guid_lower]
        ELSE "white"

\* LenovoLegionLED._get_wmi_color_code; the colors of the mapping are in lower
\* case already
LenovoLegionLED_get_wmi_color_code(color) ==
    IF color \in DOMAIN WMI_COLOR_CODES THEN WMI_COLOR_CODES[color] ELSE 1

\* LenovoLegionLED._set_led_via_wmi: what it returns and the hardware calls it
\* made; every exception is caught inside
LenovoLegionLED_set_led_via_wmi(led, color, hw) ==
    LET color_code == LenovoLegionLED_get_wmi_color_code(color)
        first == TrySurface(hw.lighting,
                            Call("SetLighting", <<WMI_LED_ZONE_POWER, color_code,
                                                  WMI_LED_BRIGHTNESS_MAX>>))
        second == TrySurface(hw.gamezone, Call("SetData", <<color_code>>))
    IN  IF ~led.wmi_module \/ ~hw.connect THEN [val |-> FALSE, calls |-> <<>>]
        ELSE IF first.done THEN [val |-> TRUE, calls |-> first.calls]
        ELSE [val |-> second.done, calls |-> first.calls \o second.calls]

\* LenovoLegionLED._set_led_color: _set_led_via_powershell does nothing
LenovoLegionLED_set_led_color(led, color, hw) ==
    IF led.wmi_available THEN LenovoLegionLED_set_led_via_wmi(led, color, hw).calls
    ELSE <<>>

\* LenovoLegionLED.set_led_for_power_plan: whether it returns and the hardware
\* calls it made
LenovoLegionLED_set_led_for_power_plan(led, power_plan_guid, windows, hw) ==
    [ok |-> TRUE,
     calls |-> IF ~LenovoLegionLED_is_supported(led, windows) THEN <<>>
               ELSE LenovoLegionLED_set_led_color(
                        led, LenovoLegionLED_get_led_color_for_plan(power_plan_guid), hw)]

\* the info text of the default settings, cut to its first word "Set"
LEGION_LED_INFO == <<83, 101, 116>>

\* the document create_default_settings_file writes
DefaultSettings ==
    JObj([lenovo_legion_led_enabled |-> JBool(FALSE),
          lenovo_legion_led_info |-> JStr(LEGION_LED_INFO)])

\* create_default_settings_file(settings_file_path)
CreateDefaultSettingsFile(writable) ==
    /\ settingsFile' = WriteJson(settingsFile, DefaultSettings, writable)
    /\ Returns("create_default_settings_file",
               [writable |-> writable, settingsFile |-> settingsFile],
               Ok(JNull), <<Call("write settings", <<>>)>>)
    /\ UNCHANGED <<disk, memory, observers, notified, peer, legionLed>>

\* LenovoLegionLED(settings_file_path)
LenovoLegionLEDInit(wmic, module) ==
    LET made == LenovoLegionLED_initialize(settingsFile, wmic, module)
    IN  /\ legionLed = JNull
        /\ legionLed' = made.led
        /\ Returns("LenovoLegionLED",
                   [settingsFile |-> settingsFile, wmic |-> wmic, module |-> module],
                   Ok(JNull), made.calls)
        /\ UNCHANGED <<disk, memory, observers, notified, peer, settingsFile>>

\* a call of LenovoLegionLED.set_led_for_power_plan on the machine hw
SetLedForPowerPlan(power_plan_guid, windows, hw) ==
    LET done == LenovoLegionLED_set_led_for_power_plan(legionLed, power_plan_guid,
                                                       windows, hw)
    IN  /\ legionLed # JNull
        /\ hw.module = legionLed.wmi_module
        /\ Returns("set_led_for_power_plan",
                   [guid |-> power_plan_guid, windows |-> windows, hw |-> hw],
                   [ok |-> done.ok, val |-> JNull], done.calls)
        /\ UNCHANGED <<disk, memory, observers, notified, peer, controller>>

\* the settings file when the controller is constructed: none, one that
\* cannot be read, one that is no JSON, a list, an object without the flag,
\* the default settings, and the flag true, null, 1 and "false"
SettingsFiles ==
    { Absent, Unreadable, Corrupt,
      Doc(JList(<<>>)),
      Doc(JObj([lenovo_legion_led_info |-> JStr(LEGION_LED_INFO)])),
      Doc(DefaultSettings),
      Doc(JObj([lenovo_legion_led_enabled |-> JBool(TRUE)])),
      Doc(JObj([lenovo_legion_led_enabled |-> JNull])),
      Doc(JObj([lenovo_legion_led_enabled |-> JNum(1)])),
      Doc(JObj([lenovo_legion_led_enabled |-> JStr(<<102, 97, 108, 115, 101>>)])) }

\* the inventory answers of WmicOutcomes, and "LENOVO" with a model query
\* that fails
LegionWmic ==
    WmicOutcomes
    \cup {[manufacturer |-> Ran(<<76, 69, 78, 79, 86, 79>>), model |-> Failed]}

InitLegion == InitFiles({Absent}, {Absent}, {Absent}, SettingsFiles)

NextLegion ==
    \/ \E writable \in BOOLEAN : CreateDefaultSettingsFile(writable)
    \/ \E wmic \in LegionWmic, module \in BOOLEAN : LenovoLegionLEDInit(wmic, module)
    \/ \E guid \in LedGuids, windows \in BOOLEAN, hw \in Machines :
           SetLedForPowerPlan(guid, windows, hw)

SpecLegion == InitLegion /\ [][NextLegion]_vars

\* the value the settings file gives the flag, JNull when it gives none
SettingsFlag(file) ==
    IF file.fs = "json" /\ file.json.t = "obj"
       /\ "lenovo_legion_led_enabled" \in DOMAIN file.json.v
    THEN file.json.v["lenovo_legion_led_enabled"]
    ELSE JNull

\* the inventory answers name a Lenovo Legion machine
AnswersLegion(wmic) ==
    /\ wmic.manufacturer.ok /\ wmic.model.ok
    /\ Contains(Lower(wmic.manufacturer.out), <<108, 101, 110, 111, 118, 111>>)
    /\ Contains(Lower(wmic.model.out), <<108, 101, 103, 105, 111, 110>>)

\* C20: the controller is enabled only by a settings file that sets
\* lenovo_legion_led_enabled to true, and finds a Legion device only when the
\* inventory names one; set_led_for_power_plan makes a hardware call only on
\* an enabled controller that found a Legion device; with a settings file
\* that is missing, unreadable or leaves the flag false the construction runs
\* no inventory query and every call has no effect; neither raises
C20_NoControlUnlessEnabled ==
    /\ op = "LenovoLegionLED" =>
          /\ ~raised
          /\ Truthy(legionLed.enabled) => SettingsFlag(arg.settingsFile) = JBool(TRUE)
          /\ legionLed.is_legion_device => AnswersLegion(arg.wmic)
          /\ ~Truthy(SettingsFlag(arg.settingsFile)) =>
                /\ calls = <<>>
                /\ ~Truthy(legionLed.enabled)
    /\ op = "set_led_for_power_plan" =>
          /\ ~raised
          /\ (\E i \in 1..Len(calls) : calls[i].call \in HardwareCalls) =>
                Truthy(legionLed.enabled) /\ legionLed.is_legion_device
          /\ ~Truthy(legionLed.enabled) => calls = <<>>

(***************************************************************************)
(* The observer and the controller on one machine.                         *)
(***************************************************************************)
\* the inventory answers: a Legion, a ThinkPad, a Dell
IndicatorWmic == {w \in WmicOutcomes : w.manufacturer.ok}

InitIndicator ==
    InitFiles({Absent}, {Absent},
              {Absent, HoldsFalse},
              {Doc(DefaultSettings),
               Doc(JObj([lenovo_legion_led_enabled |-> JBool(TRUE)]))})

NextIndicator ==
    \/ PluginInit(Ran(<<58, 32, 56, 53, 48>>), TRUE, NoQueries, TRUE)
    \/ \E guid \in LedGuids, wmic \in IndicatorWmic, hw \in Machines :
           Activated(guid, wmic, TRUE, hw)
    \/ \E wmic \in IndicatorWmic, module \in BOOLEAN : LenovoLegionLEDInit(wmic, module)
    \/ \E guid \in LedGuids, hw \in Machines : SetLedForPowerPlan(guid, TRUE, hw)
    \/ Exit

SpecIndicator == InitIndicator /\ [][NextIndicator]_vars

\* an activation of the observer or of the controller
LedActivation == op \in {"on_power_plan_activated", "set_led_for_power_plan"}

\* the names of the hardware-control calls of the operation, in their order
SurfaceCalls ==
    [i \in 1..Len(SelectSeq(calls, LAMBDA c : c.call \in HardwareCalls)) |->
        SelectSeq(calls, LAMBDA c : c.call \in HardwareCalls)[i].call]

FirstGuid(text) ==
    LET at == {i \in 1..Len(text) : IsGuidToken(text[i])}
    IN  IF at = {} THEN [found |-> FALSE, g0 |-> 0]
        ELSE [found |-> TRUE, g0 |-> text[Least(at)]]

\* PowerPlanManager.get_active_plan; active is the outcome of
\* 'powercfg /GETACTIVESCHEME'.  The identifier is returned as it is spelled
get_active_plan(enc, active) ==
    LET output == decode_output(enc, active.out)
        match == FirstGuid(output.val)
    IN  IF ~active.ok \/ ~output.ok THEN JNull
        ELSE IF match.found THEN JStr(<<match.g0>>)
        ELSE JNull

\* " (active)"
ACTIVE_SUFFIX == <<32, 40, 97, 99, 116, 105, 118, 101, 41>>

\* str(n) for a natural number
RECURSIVE Digits(_)
Digits(n) == IF n < 10 THEN <<48 + n>> ELSE Digits(n \div 10) \o <<48 + (n % 10)>>

\* f"{name}"
Format(name) == IF name.t = "str" THEN name.v ELSE Digits(name.v)

\* Result(...).to_json() of a plan
PlanResult(power_plan, title) ==
    [title |-> title,
     subTitle |-> JStr(<<83, 119, 105, 116, 99, 104, 32, 116, 111, 32, 39>> \o Format(power_plan.name) \o <<39>>),
     icoPath |-> power_plan.icon_path,
     jsonRPCAction |-> [method |-> "switch_to",
                        parameters |-> <<power_plan.identifier>>],
     score |-> 0]

\* Result(...).to_json() of the entry that says nothing matched
NoMatchResult(query_text) ==
    [title |-> JStr(<<78, 111, 32, 109, 97, 116, 99, 104, 105, 110, 103, 32, 112, 111, 119, 101, 114, 32, 112, 108, 97, 110, 32, 102, 111, 117, 110, 100>>),
     subTitle |-> JStr(<<78, 111, 32, 112, 111, 119, 101, 114, 32, 112, 108, 97, 110, 32, 109, 97, 116, 99, 104, 101, 115, 32, 39>> \o query_text \o <<39, 46>>),
     icoPath |-> JStr(DEFAULT_APP_ICON),
     jsonRPCAction |-> [method |-> "none", parameters |-> <<>>],
     score |-> 0]

\* [p for p in power_plans if query_text.lower() in p.name.lower()] if
\* query_text else power_plans; a name that is no string has no lower()
Filtered(power_plans, query_text) ==
    IF query_text = <<>> THEN Ok(power_plans)
    ELSE IF \E i \in 1..Len(power_plans) : power_plans[i].name.t # "str" THEN Raise
    ELSE Ok(SelectSeq(power_plans,
                      LAMBDA p : Contains(Lower(p.name.v), Lower(query_text))))

\* the loop of query over the filtered plans; name + " (active)" is a TypeError
\* for a name that is no string
QueryResults(plans, active_plan) ==
    IF \E i \in 1..Len(plans) :
           plans[i].name.t # "str" /\ JStr(<<plans[i].identifier>>) = active_plan
    THEN Raise
    ELSE Ok([i \in 1..Len(plans) |->
                PlanResult(plans[i],
                           IF JStr(<<plans[i].identifier>>) = active_plan
                           THEN JStr(plans[i].name.v \o ACTIVE_SUFFIX)
                           ELSE plans[i].name)])

\* PowerPlanSwitcherPlugin.query; power_plans and active_plan are what
\* get_all_system_plans and get_active_plan returned to it
query(power_plans, active_plan, query_text) ==
    LET filtered == Filtered(power_plans.val, query_text)
    IN  IF ~power_plans.ok \/ ~filtered.ok THEN Raise
        ELSE IF filtered.val = <<>> THEN Ok(<<NoMatchResult(query_text)>>)
        ELSE QueryResults(filtered.val, active_plan)

\* the external commands of a query: the second one runs only after the list
\* was read
QueryCalls(power_plans) ==
    IF power_plans.ok
    THEN <<Call("powercfg /list", <<>>), Call("powercfg /GETACTIVESCHEME", <<>>)>>
    ELSE <<Call("powercfg /list", <<>>)>>

\* query returns to its caller
QueryReturns(input, power_plans, active_plan) ==
    Returns("query", input, query(power_plans, active_plan, input.query_text),
            QueryCalls(power_plans))

\* a call of PowerPlanManager.get_active_plan
GetActivePlan(active) ==
    /\ pc = "up"
    /\ pc' = "served"
    /\ Returns("get_active_plan", [active |-> active],
               Ok(get_active_plan(encoding, active)),
               <<Call("powercfg /GETACTIVESCHEME", <<>>)>>)
    /\ UNCHANGED <<disk, encoding, localized, isLenovo, observers, notified, peer, controller>>

\* a call of PowerPlanSwitcherPlugin.query
Query(list, order, active, query_text) ==
    /\ pc = "up"
    /\ pc' = "served"
    /\ QueryReturns([list |-> list, order |-> order, active |-> active,
                     query_text |-> query_text],
                    get_all_system_plans(encoding, localized, list, order),
                    get_active_plan(encoding, active))
    /\ UNCHANGED <<disk, encoding, localized, isLenovo, observers, notified, peer, controller>>

\* the lines of the list outputs of a query: balanced "(X)", a custom plan
\* "(M)", POWER SAVER in upper case "( Z ) *"
QueryLines ==
    { Line(GUID_BALANCED, <<32, 32>>, <<88>>),
      Line(1006, <<32>>, <<77>>),
      Line(UpperGuid(GUID_POWER_SAVER), <<32>>, <<32, 90, 32>>) \o <<32, 42>> }

QueryLists == {Failed} \cup {Ran(JoinLines(ls)) : ls \in SeqsUpTo(QueryLines, MaxLines)}

\* the answers of 'powercfg /GETACTIVESCHEME': it fails; "Ex"; ": " and the
\* balanced plan in lower case; the same in upper case; a custom plan; a
\* custom plan and then the balanced plan
ActiveOutcomes ==
    { Failed,
      Ran(<<69, 120>>),
      Ran(<<58, 32>> \o Line(GUID_BALANCED, <<32, 32>>, <<88>>)),
      Ran(<<58, 32>> \o Line(UpperGuid(GUID_BALANCED), <<32, 32>>, <<88>>)),
      Ran(<<58, 32>> \o Line(1006, <<32, 32>>, <<77>>)),
      Ran(<<58, 32, 1006, 32, 1002>>) }

\* the texts typed: nothing, "x", "zz"
QueryTexts == {<<>>, <<120>>, <<122, 122>>}

InitQuery ==
    InitWith({Absent, Doc(JObj([encoding |-> JStr(CP708)]))},
             {Absent, Doc(JObj([plans |-> PartialTable]))},
             {Absent})

NextQuery ==
    \/ \E queries \in {NoQueries, GermanQueries} :
           PluginInit(Ran(<<58, 32, 56, 53, 48>>), TRUE, queries, TRUE)
    \/ \E active \in ActiveOutcomes : GetActivePlan(active)
    \/ \E list \in QueryLists, active \in ActiveOutcomes, query_text \in QueryTexts :
           Query(list, MetadataOrder, active, query_text)
    \/ Exit

SpecQuery == InitQuery /\ [][NextQuery]_vars

\* the first identifier of the output of the external command as the plan
\* manager reads it, in lower case; empty when the command failed or its
\* output has no identifier
ActiveReported ==
    LET output == decode_output(encoding, arg.active.out)
    IN  IF arg.active.ok /\ output.ok /\ FirstGuid(output.val).found
        THEN {LowerChar(FirstGuid(output.val).g0)}
        ELSE {}

\* the entry of a plan is marked: its title ends with " (active)"
Marked(r) ==
    /\ r.title.t = "str"
    /\ Len(r.title.v) >= Len(ACTIVE_SUFFIX)
    /\ SubSeq(r.title.v, Len(r.title.v) - Len(ACTIVE_SUFFIX) + 1, Len(r.title.v))
           = ACTIVE_SUFFIX

\* the entries of the result that stand for a plan
PlanEntries == {i \in 1..Len(ret) : ret[i].jsonRPCAction.method = "switch_to"}

\* C23: in the result of query a plan is marked exactly when its identifier
\* is, letter case ignored, the first identifier of the output of the external
\* command; get_active_plan returns none when the command failed or its output
\* has no identifier, and then no plan is marked
C23_ActiveMarkedIgnoringCase ==
    /\ op = "query" /\ ~raised =>
          \A i \in PlanEntries :
              Marked(ret[i]) <=>
                  LowerChar(ret[i].jsonRPCAction.parameters[1]) \in ActiveReported
    /\ op = "get_active_plan" =>
          /\ ~raised
          /\ ActiveReported = {} => ret = JNull
          /\ ActiveReported # {} => ret # JNull /\ LowerChar(ret.v[1]) \in ActiveReported

\* the hardware-control calls of the operation, in their order
HardwareSeq == SelectSeq(calls, LAMBDA c : c.call \in HardwareCalls)

\* an activation of the observer, decided applicable, is followed by an
\* activation of the controller, enabled on a Legion device, for the same
\* identifier on the same machine
SameActivationTwice ==
    /\ op = "on_power_plan_activated"
    /\ isLenovo = JBool(TRUE)
    /\ op' = "set_led_for_power_plan"
    /\ LenovoLegionLED_is_supported(legionLed, arg'.windows)
    /\ legionLed.wmi_available
    /\ arg'.guid = arg.guid
    /\ arg'.hw = arg.hw

\* C24: on an applicable device the observer and the controller make the same
\* hardware-control calls, with the same color code, for the same identifier:
\* for an identifier of the plan-to-color mapping in lower or upper case, and
\* for an identifier that is not in the mapping
C24_ObserverControllerConsistent ==
    [][SameActivationTwice => HardwareSeq' = HardwareSeq]_vars

(***************************************************************************)
(* The vendor cache file changes while an observer lives.                  *)
(***************************************************************************)
\* another program deletes or rewrites .cache/is_lenovo_system.json
CacheFileChanged(file) ==
    /\ file # vendorFile
    /\ vendorFile' = file
    /\ Returns("cache_file_changed", [vendorFile |-> vendorFile], Ok(JNull), <<>>)
    /\ UNCHANGED <<encFile, plansFile, memory, observers, notified, peer, controller>>

\* what the file is changed to: deleted, garbage, true, false
ChangedFiles ==
    { Absent, Corrupt,
      Doc(JObj([is_lenovo_system |-> JBool(TRUE)])),
      HoldsFalse }

\* the machines of the activations: no wmi module, two working surfaces
DecisionMachines == {NoWmiModule, Machine("ok", "ok")}

InitDecision == InitWith({Absent}, {Absent}, ChangedFiles)

NextDecision ==
    \/ PluginInit(Ran(<<58, 32, 56, 53, 48>>), TRUE, NoQueries, TRUE)
    \/ \E guid \in LedGuids, wmic \in WmicOutcomes, writable \in BOOLEAN,
          hw \in DecisionMachines :
           Activated(guid, wmic, writable, hw)
    \/ \E file \in ChangedFiles : CacheFileChanged(file)
    \/ Exit

SpecDecision == InitDecision /\ [][NextDecision]_vars

\* the calls that read or write the cache file or ask the hardware inventory
DecisionCalls ==
    InventoryCalls \cup {"read is_lenovo_system.json", "write is_lenovo_system.json"}

\* C25: an activation of an observer whose _is_lenovo_system is true or false
\* leaves it as it is, does not read or write the cache file and asks no
\* inventory, whatever the cache file holds by then; when it is false the
\* activation makes no hardware-control call
C25_DecidedOnce ==
    [][op' = "on_power_plan_activated" /\ isLenovo \in {JBool(TRUE), JBool(FALSE)} =>
          /\ isLenovo' = isLenovo
          /\ vendorFile' = vendorFile
          /\ \A i \in 1..Len(calls') : calls'[i].call \notin DecisionCalls
          /\ isLenovo = JBool(FALSE) => HardwareSeq' = <<>>]_vars

\* C25 witness: an observer that decided false was activated for the high
\* performance plan on a Legion with working surfaces after the cache file
\* was rewritten to hold true, and did nothing
C25_Witness ==
    /\ op = "on_power_plan_activated"
    /\ arg.isLenovo = JBool(FALSE)
    /\ arg.vendorFile = Doc(JObj([is_lenovo_system |-> JBool(TRUE)]))
    /\ arg.guid = GUID_HIGH_PERFORMANCE
    /\ arg.hw = Machine("ok", "ok")
    /\ isLenovo = JBool(FALSE)
    /\ calls = <<>>

(***************************************************************************)
(* Control surfaces that never answer.  A surface of kind "hangs" has an    *)
(* instance whose call does not return.  An activation is called, and then *)
(* it returns or it stays in the call that does not return.                *)
(***************************************************************************)
\* the attempts on the two surfaces, in their order, reach a call that does
\* not return: the first one, or the second one when the first surface is
\* missing, has no instance or raised
SurfaceHangs(hw) ==
    /\ hw.module
    /\ hw.connect
    /\ \/ hw.lighting = "hangs"
       \/ hw.lighting # "ok" /\ hw.gamezone = "hangs"

\* the hardware-control calls an activation issued up to the call that does
\* not return
CallsUntilHang(color_code, hw) ==
    IF hw.lighting = "hangs" THEN <<Call("SetLighting", <<0, color_code, 100>>)>>
    ELSE TrySurface(hw.lighting, Call("SetLighting", <<0, color_code, 100>>)).calls
         \o <<Call("SetData", <<color_code>>)>>

\* on_power_plan_activated reaches _set_led_color on a machine where it does
\* not return
ObserverHangs(is_lenovo, file, guid, wmic, writable, hw) ==
    LET decided == IF is_lenovo = JNull
                   THEN detect_lenovo_system(file, wmic, writable).val
                   ELSE is_lenovo
    IN  /\ LowerChar(guid) \in DOMAIN LENOVO_POWER_PLANS
        /\ Truthy(decided)
        /\ SurfaceHangs(hw)

\* set_led_for_power_plan reaches _set_led_via_wmi on a machine where it does
\* not return
ControllerHangs(led, windows, hw) ==
    /\ LenovoLegionLED_is_supported(led, windows)
    /\ led.wmi_available
    /\ SurfaceHangs(hw)

\* on_power_plan_activated is called
ActivationCalled(guid, wmic, writable, hw) ==
    /\ pc = "up"
    /\ pc' = "activating"
    /\ Returns("call on_power_plan_activated",
               [guid |-> guid, wmic |-> wmic, writable |-> writable, hw |-> hw],
               Ok(JNull), <<>>)
    /\ UNCHANGED <<disk, encoding, localized, isLenovo, observers, notified, peer, controller>>

\* on_power_plan_activated runs to its end
ActivationReturned ==
    LET done == on_power_plan_activated(isLenovo, vendorFile, arg.guid, arg.wmic,
                                        arg.writable, arg.hw)
    IN  /\ pc = "activating"
        /\ ~ObserverHangs(isLenovo, vendorFile, arg.guid, arg.wmic, arg.writable, arg.hw)
        /\ pc' = "up"
        /\ isLenovo' = done.val
        /\ vendorFile' = done.file
        /\ Returns("on_power_plan_activated", arg, [ok |-> done.ok, val |-> JNull],
                   done.calls)
        /\ UNCHANGED <<encFile, plansFile, encoding, localized, observers, notified, peer, controller>>

\* on_power_plan_activated runs into the call that does not return: the
\* decision is made and persisted, the call is issued
ActivationBlocked ==
    LET decided == IF isLenovo = JNull
                   THEN detect_lenovo_system(vendorFile, arg.wmic, arg.writable)
                   ELSE [val |-> isLenovo, calls |-> <<>>, file |-> vendorFile]
    IN  /\ pc = "activating"
        /\ ObserverHangs(isLenovo, vendorFile, arg.guid, arg.wmic, arg.writable, arg.hw)
        /\ pc' = "blocked"
        /\ isLenovo' = decided.val
        /\ vendorFile' = decided.file
        /\ calls' = decided.calls
                    \o CallsUntilHang(LENOVO_POWER_PLANS[LowerChar(arg.guid)], arg.hw)
        /\ UNCHANGED <<encFile, plansFile, encoding, localized, op, arg, raised, ret,
                       observers, notified, peer, controller>>

\* set_led_for_power_plan is called
SetLedCalled(power_plan_guid, hw) ==
    /\ pc = "up"
    /\ legionLed # JNull
    /\ hw.module = legionLed.wmi_module
    /\ pc' = "setting"
    /\ Returns("call set_led_for_power_plan",
               [guid |-> power_plan_guid, windows |-> TRUE, hw |-> hw],
               Ok(JNull), <<>>)
    /\ UNCHANGED <<disk, encoding, localized, isLenovo, observers, notified, peer, controller>>

\* set_led_for_power_plan runs to its end
SetLedReturned ==
    LET done == LenovoLegionLED_set_led_for_power_plan(legionLed, arg.guid,
                                                       arg.windows, arg.hw)
    IN  /\ pc = "setting"
        /\ ~ControllerHangs(legionLed, arg.windows, arg.hw)
        /\ pc' = "up"
        /\ Returns("set_led_for_power_plan", arg, [ok |-> done.ok, val |-> JNull],
                   done.calls)
        /\ UNCHANGED <<disk, encoding, localized, isLenovo, observers, notified, peer, controller>>

\* set_led_for_power_plan runs into the call that does not return
SetLedBlocked ==
    /\ pc = "setting"
    /\ ControllerHangs(legionLed, arg.windows, arg.hw)
    /\ pc' = "blocked"
    /\ calls' = CallsUntilHang(
                    LenovoLegionLED_get_wmi_color_code(
                        LenovoLegionLED_get_led_color_for_plan(arg.guid)), arg.hw)
    /\ UNCHANGED <<disk, encoding, localized, isLenovo, op, arg, raised, ret,
                   observers, notified, peer, controller>>

\* machines with a surface that does not answer, among machines that do
HangMachines ==
    { NoWmiModule, Machine("ok", "ok"), Machine("ok", "hangs"),
      Machine("hangs", "ok"), Machine("raises", "hangs"), Machine("none", "hangs") }

InitHang ==
    InitFiles({Absent}, {Absent},
              {Absent, HoldsFalse},
              {Doc(DefaultSettings),
               Doc(JObj([lenovo_legion_led_enabled |-> JBool(TRUE)]))})

NextHang ==
    \/ PluginInit(Ran(<<58, 32, 56, 53, 48>>), TRUE, NoQueries, TRUE)
    \/ /\ pc \in {"down", "up"}
       /\ \E wmic \in IndicatorWmic, module \in BOOLEAN : LenovoLegionLEDInit(wmic, module)
    \/ \E guid \in LedGuids, wmic \in IndicatorWmic, hw \in HangMachines :
           ActivationCalled(guid, wmic, TRUE, hw)
    \/ ActivationReturned
    \/ ActivationBlocked
    \/ \E guid \in LedGuids, hw \in HangMachines : SetLedCalled(guid, hw)
    \/ SetLedReturned
    \/ SetLedBlocked
    \/ Exit

\* a call that is running goes on: it returns, or it reaches the call that
\* does not return
SpecHang ==
    /\ InitHang
    /\ [][NextHang]_vars
    /\ WF_vars(ActivationReturned)
    /\ WF_vars(ActivationBlocked)
    /\ WF_vars(SetLedReturned)
    /\ WF_vars(SetLedBlocked)

\* C26: every activation of the observer and of the controller that is called
\* returns to its caller, also on a machine with a control surface that never
\* answers
C26_ActivationReturns ==
    pc \in {"activating", "setting"} ~> pc = "up"
====
